---- MODULE Spec2Model ----
(***************************************************************************)
(* A model of the Axon gateway core: route matching, the request pipeline, *)
(* the proxy forwarder, backend health tracking, the WAF engine and the    *)
(* configuration hot-reload task.                                          *)
(*                                                                         *)
(* Strings that the code inspects character by character (paths, prefixes, *)
(* hosts) are sequences of one-character strings.  An Option<T> is a       *)
(* sequence of length 0 (None) or 1 (Some).                                *)
(***************************************************************************)
EXTENDS Integers, Sequences, FiniteSets, TLC

None == <<>>
Some(x) == <<x>>
IsSome(o) == Len(o) = 1
IsNone(o) == Len(o) = 0

(***************************************************************************)
(* Bounds of the model.                                                    *)
(***************************************************************************)
\* number of times the configuration source is rewritten
MaxWrites == 1
\* the writes of one burst observed by the watcher alone
MaxBurst == 2
\* the probes of one backend that are followed
MaxProbes == 5
\* the largest healthy / unhealthy threshold of the probe histories
MaxProbeThreshold == 3
\* the largest `requests` and the longest period (in clock ticks) of a limiter
MaxQuota == 2
MaxPeriod == 2
\* how far the limiter's clock runs, and how many checks are followed
MaxTime == 2
MaxChecks == 4

\* number of requests each connection of the pipeline model sends, one after another
MaxRequests == 2

\* the connections of the pipeline model
Requests == {"r1"}

\* largest route table of the matching model
MaxRoutes == 3

\* largest health-check threshold of the health model
MaxThreshold == 2

\* cap on the consecutive-result counters and on COUNTER in the health model
MaxCount == 3

\* largest number of detectors one request of the WAF model triggers
MaxTriggers == 2

\* largest number of routes in a table given to the route-conflict check
MaxEntries == 2

\* longest time, in ticks, a pending backend request is followed
MaxWait == 3

\* largest idle_timeout_secs tried, and the longest session followed, in ticks
MaxIdleTimeout == 2
MaxSession == 3

(***************************************************************************)
(* String helpers.                                                         *)
(***************************************************************************)
\* str::starts_with
StartsWith(s, p) == Len(p) <= Len(s) /\ SubSeq(s, 1, Len(p)) = p

\* str::strip_prefix: Some(rest) when s starts with p, else None
StripPrefix(s, p) ==
    IF StartsWith(s, p) THEN Some(SubSeq(s, Len(p) + 1, Len(s))) ELSE None

\* u8::to_ascii_lowercase on the characters the model uses
LowerChar(c) ==
    CASE c = "A" -> "a"
      [] c = "B" -> "b"
      [] c = "X" -> "x"
      [] c = "W" -> "w"
      [] c = "S" -> "s"
      [] OTHER -> c

ToAsciiLowercase(s) == [i \in 1..Len(s) |-> LowerChar(s[i])]

\* a comparison that tells upper case from lower case (the variant of
\* eq_ignore_ascii_case that C8 rules out)
EqExact(a, b) == a = b

\* str::eq_ignore_ascii_case
EqIgnoreAsciiCase(a, b) == ToAsciiLowercase(a) = ToAsciiLowercase(b)

\* http::Uri parsing of the constructed backend URI: a space is not a URI character
UriParses(s) == \A i \in 1..Len(s) : s[i] # " "

(***************************************************************************)
(* Route matching (core/gateway.rs).                                       *)
(***************************************************************************)
\* Iterator::max_by_key(|(prefix, _)| prefix.len()): the last element with the
\* largest key, None for an empty iterator.
RECURSIVE MaxByKeyFrom(_, _, _)
MaxByKeyFrom(cands, i, best) ==
    IF i > Len(cands) THEN best
    ELSE MaxByKeyFrom(cands, i + 1,
            IF IsNone(best) \/ Len(cands[i].prefix) >= Len(best[1].prefix)
            THEN Some(cands[i]) ELSE best)

MaxByKey(cands) == MaxByKeyFrom(cands, 1, None)

\* the first filter closure: the prefix matches and the route's host is set and
\* equals the request host
WithHostFilter(e, path, host) ==
    /\ StartsWith(path, e.prefix)
    /\ IF IsSome(e.host)
       THEN IF IsSome(host) THEN EqIgnoreAsciiCase(e.host[1], host[1]) ELSE FALSE
       ELSE FALSE

\* the second filter closure: the prefix matches and the route has no host
NoHostFilter(e, path) ==
    /\ StartsWith(path, e.prefix)
    /\ IsNone(e.host)

\* GatewayService::find_matching_route over the route table in iteration order
FindMatchingRoute(routes, path, host) ==
    LET hostTest(e) == WithHostFilter(e, path, host)
        plainTest(e) == NoHostFilter(e, path)
        with_host == MaxByKey(SelectSeq(routes, hostTest))
    IN  IF IsSome(with_host) THEN with_host
        ELSE MaxByKey(SelectSeq(routes, plainTest))

(***************************************************************************)
(* WAF engine (core/waf/engine.rs, core/waf/ip_filter.rs).                 *)
(* A request is described to the WAF by the set of detectors whose         *)
(* patterns it contains (trig) and by its client IP.                       *)
(***************************************************************************)
\* SecurityViolation::new(threat_type, .., blocked)
Violation(threat, blocked) == [threat_type |-> threat, blocked |-> blocked]

\* IpFilter::check_ip: whitelist (if non-empty) first, then blacklist; both block
CheckIp(filter, ip) ==
    IF ~filter.enabled THEN None
    ELSE IF filter.whitelist # {} /\ ip \notin filter.whitelist
         THEN Some(Violation("IP_NOT_WHITELISTED", TRUE))
    ELSE IF ip \in filter.blacklist
         THEN Some(Violation("IP_BLACKLISTED", TRUE))
    ELSE None

\* SecurityRule::check of one pattern detector: a violation carrying the
\* detector's own block_mode when the request contains one of its patterns
DetectorCheck(rule, name, trig) ==
    IF ~rule.enabled THEN None
    ELSE IF name \in trig THEN Some(Violation(name, rule.block_mode))
    ELSE None

\* WafEngine::check_request; from_config keeps a detector only when enabled
CheckRequest(waf, trig, client_ip) ==
    LET ipv   == IF waf.ip_filter.enabled /\ IsSome(client_ip)
                 THEN CheckIp(waf.ip_filter, client_ip[1]) ELSE None
        botv  == DetectorCheck(waf.bot_detection, "BOT", trig)
        sqlv  == DetectorCheck(waf.sql_injection, "SQL_INJECTION", trig)
        xssv  == DetectorCheck(waf.xss, "XSS", trig)
        cmdv  == DetectorCheck(waf.command_injection, "COMMAND_INJECTION", trig)
        pathv == DetectorCheck(waf.path_traversal, "PATH_TRAVERSAL", trig)
    IN  IF ~waf.enabled THEN None
        ELSE IF IsSome(ipv) THEN ipv
        ELSE IF IsSome(botv) /\ botv[1].blocked THEN botv
        ELSE IF IsSome(sqlv) THEN sqlv
        ELSE IF IsSome(xssv) THEN xssv
        ELSE IF IsSome(cmdv) THEN cmdv
        ELSE IF IsSome(pathv) THEN pathv
        ELSE None

\* the WAF part of route_request: 403 when the reported violation is blocked,
\* otherwise (no violation, or monitor mode) the request goes on
WafVerdict(waf, trig, client_ip) ==
    LET v == CheckRequest(waf, trig, client_ip)
    IN  IF IsSome(v) /\ v[1].blocked THEN 403 ELSE 0

(***************************************************************************)
(* Backend health (core/backend.rs, adapters/health_checker.rs).           *)
(***************************************************************************)
\* BackendHealth::new: healthy, counters at zero
BackendHealthNew ==
    [status |-> "Healthy", consecutive_successes |-> 0,
     consecutive_failures |-> 0, active_connections |-> 0]

\* BackendHealth::mark_healthy
MarkHealthy(h) ==
    [h EXCEPT !.status = "Healthy",
              !.consecutive_failures = 0,
              !.consecutive_successes = h.consecutive_successes + 1]

\* BackendHealth::mark_unhealthy
MarkUnhealthy(h) ==
    [h EXCEPT !.status = "Unhealthy",
              !.consecutive_successes = 0,
              !.consecutive_failures = h.consecutive_failures + 1]

\* a success handler that recovers one probe late (the variant that C13 rules out)
HandleSuccessOneLate(h, hc) ==
    LET successes == h.consecutive_successes + 1
        h1 == [h EXCEPT !.consecutive_successes = successes,
                        !.consecutive_failures = 0]
    IN  IF successes > hc.healthy_threshold /\ h1.status = "Unhealthy"
        THEN [h1 EXCEPT !.status = "Healthy"] ELSE h1

\* HealthChecker::handle_health_check_success
HandleHealthCheckSuccess(h, hc) ==
    LET successes == h.consecutive_successes + 1
        h1 == [h EXCEPT !.consecutive_successes = successes,
                        !.consecutive_failures = 0]
    IN  IF successes >= hc.healthy_threshold /\ h1.status = "Unhealthy"
        THEN MarkHealthy(h1) ELSE h1

\* a failure handler without hysteresis: the first failed probe marks the
\* backend unhealthy (the variant that C5 rules out)
HandleFailureNoThreshold(h, hc) ==
    MarkUnhealthy([h EXCEPT !.consecutive_failures = @ + 1,
                            !.consecutive_successes = 0])

\* HealthChecker::handle_health_check_failure
HandleHealthCheckFailure(h, hc) ==
    LET failures == h.consecutive_failures + 1
        h1 == [h EXCEPT !.consecutive_failures = failures,
                        !.consecutive_successes = 0]
    IN  IF failures >= hc.unhealthy_threshold /\ h1.status = "Healthy"
        THEN MarkUnhealthy(h1) ELSE h1

\* BackendHealth::inc_active_connections / dec_active_connections
IncActiveConnections(h) == [h EXCEPT !.active_connections = @ + 1]
DecActiveConnections(h) == [h EXCEPT !.active_connections = @ - 1]

(***************************************************************************)
(* Backend selection (core/gateway.rs).                                    *)
(***************************************************************************)
\* GatewayService::get_backend_health_status: Healthy when the backend is not tracked
GetBackendHealthStatus(health, target) ==
    IF target \in DOMAIN health THEN health[target].status ELSE "Healthy"

\* a filter that lets every target through (the variant that C6 rules out)
AllTargets(enabled, health, targets) == targets

\* GatewayService::get_healthy_backends
GetHealthyBackends(enabled, health, targets) ==
    LET isHealthy(t) == GetBackendHealthStatus(health, t) = "Healthy"
    IN  IF ~enabled THEN targets ELSE SelectSeq(targets, isHealthy)

\* a loop that takes the last healthy backend (the variant that C24 rules out)
LeastConnLast(health, hs, i, best, min_conns) == Some(hs[Len(hs)])

\* the LeastConnections loop: the first backend with the strictly lowest count
RECURSIVE LeastConnFrom(_, _, _, _, _)
LeastConnFrom(health, hs, i, best, min_conns) ==
    IF i > Len(hs) THEN best
    ELSE IF hs[i] \in DOMAIN health /\
            (IsNone(min_conns) \/ health[hs[i]].active_connections < min_conns[1])
         THEN LeastConnFrom(health, hs, i + 1, Some(hs[i]),
                            Some(health[hs[i]].active_connections))
         ELSE LeastConnFrom(health, hs, i + 1, best, min_conns)

\* GatewayService::select_backend: the set of backends the call may return (one
\* for RoundRobin and LeastConnections, any healthy one for Random), each as an
\* Option; `counter` is the value read from the static COUNTER
SelectBackend(enabled, health, targets, strategy, counter) ==
    LET healthy_backends == GetHealthyBackends(enabled, health, targets)
        strat == IF IsSome(strategy) THEN strategy[1] ELSE "RoundRobin"
    IN  IF healthy_backends = <<>> THEN {None}
        ELSE CASE strat = "RoundRobin" ->
                    {Some(healthy_backends[(counter % Len(healthy_backends)) + 1])}
               [] strat = "Random" ->
                    {Some(healthy_backends[i]) : i \in 1..Len(healthy_backends)}
               [] OTHER ->
                    LET best == LeastConnFrom(health, healthy_backends, 1, None, None)
                    IN  {IF IsSome(best) THEN best ELSE Some(healthy_backends[1])}

\* a counter that stands still (the variant that C23 rules out)
SelectNeverAdvances(enabled, health, targets, strategy) == FALSE

\* whether the call advances the static COUNTER (RoundRobin with a non-empty healthy set)
SelectAdvances(enabled, health, targets, strategy) ==
    /\ GetHealthyBackends(enabled, health, targets) # <<>>
    /\ (IsNone(strategy) \/ strategy[1] = "RoundRobin")

(***************************************************************************)
(* Rate limiting (core/rate_limiter.rs).  Time is counted in ticks; a      *)
(* period is a number of ticks.  A limiter holds, for each key it has      *)
(* seen, the theoretical arrival time of governor's GCRA state; a key it   *)
(* has not seen starts at 0, the limiter's creation.                       *)
(***************************************************************************)
\* RouteRateLimiter::new succeeds: NonZeroU32::new(requests) is Some and a
\* Header limiter has a header_name
LimiterBuilds(rl) ==
    /\ rl.requests > 0
    /\ rl.by = "Header" => IsSome(rl.header_name)

\* the Quota RouteRateLimiter::new builds: Quota::with_period(period) replenishes
\* one cell per period, allow_burst(requests) lets `requests` cells go at once
QuotaOf(rl) ==
    CASE rl.algorithm = "TokenBucket" ->
            [replenish_1_per |-> rl.period, max_burst |-> rl.requests]
      [] rl.algorithm = "SlidingWindow" ->
            [replenish_1_per |-> rl.period, max_burst |-> rl.requests]
      [] rl.algorithm = "FixedWindow" ->
            [replenish_1_per |-> rl.period, max_burst |-> rl.requests]

\* governor's GCRA (Gcra::new, Gcra::test_and_update) for one cell arriving at
\* `now` on a state with theoretical arrival time tat: t = replenish_1_per,
\* tau = t * max_burst, the cell is refused when now < tat.saturating_sub(tau)
GcraAllows(quota, tat, now) ==
    LET tau == quota.replenish_1_per * quota.max_burst
        earliest_time == IF tat > tau THEN tat - tau ELSE 0
    IN  now >= earliest_time

\* a limiter that never charges a conforming cell (the variant that C14 rules out)
GcraNextNoCharge(quota, tat, now) == tat

\* the theoretical arrival time after a conforming cell: max(tat, now) + t
GcraNext(quota, tat, now) ==
    (IF tat > now THEN tat ELSE now) + quota.replenish_1_per

\* Gcra::starting_state: the state of a key that has none yet
StartingState(quota, now) == now + quota.replenish_1_per

\* a limiter that starts with its route-wide quota already charged (the variant
\* that C19 rules out)
RouteRateLimiterCarriedOver(rl) ==
    [cfg |-> rl, quota |-> QuotaOf(rl),
     tat |-> [k \in {"route"} |-> rl.period * (rl.requests + 1)]]

\* the limiter as built: the configuration, its quota, and the state per key
RouteRateLimiterNew(rl) == [cfg |-> rl, quota |-> QuotaOf(rl), tat |-> [k \in {} |-> 0]]

\* the key RouteRateLimiter::check extracts: none for Route (one shared key),
\* the client IP for Ip
LimiterKey(rl, client) ==
    IF rl.by = "Route" THEN Some("route") ELSE client

\* the state of key k when the clock reads `now`
TatOf(lim, k, now) ==
    IF k \in DOMAIN lim.tat THEN lim.tat[k] ELSE StartingState(lim.quota, now)

\* the cells key k has consumed while no time has passed since the limiter was built
CellsUsed(lim, k) ==
    IF k \in DOMAIN lim.tat THEN (lim.tat[k] \div lim.quota.replenish_1_per) - 1 ELSE 0

\* a limiter that never denies (the variant that C9 rules out)
RateLimiterNeverDenies(lim, client) ==
    [allowed |-> TRUE, status |-> 0, body |-> "", lim |-> lim]

\* a check that lets every request without a key pass, whatever on_missing_key
\* says (the variant that C18 rules out)
RateLimiterCheckIgnoresPolicy(lim, client, now) ==
    [allowed |-> TRUE, status |-> 0, body |-> "", lim |-> lim]

\* RouteRateLimiter::check when the clock reads `now`: the decision, the
\* response of a denial, and the limiter state afterwards
RateLimiterCheckAt(lim, client, now) ==
    LET rl  == lim.cfg
        key == LimiterKey(rl, client)
    IN  IF IsNone(key)
        THEN IF rl.on_missing_key = "Allow"
             THEN [allowed |-> TRUE, status |-> 0, body |-> "", lim |-> lim]
             ELSE [allowed |-> FALSE, status |-> rl.status_code,
                   body |-> "No client IP available", lim |-> lim]
        ELSE IF GcraAllows(lim.quota, TatOf(lim, key[1], now), now)
             THEN [allowed |-> TRUE, status |-> 0, body |-> "",
                   lim |-> [lim EXCEPT !.tat =
                              [k \in DOMAIN lim.tat \cup {key[1]} |->
                                 IF k = key[1]
                                 THEN GcraNext(lim.quota, TatOf(lim, k, now), now)
                                 ELSE lim.tat[k]]]]
             ELSE [allowed |-> FALSE, status |-> rl.status_code,
                   body |-> rl.message, lim |-> lim]

\* RouteRateLimiter::check in the pipeline model, where no time passes
RateLimiterCheck(lim, client) == RateLimiterCheckAt(lim, client, 0)

(***************************************************************************)
(* Configuration (config/models.rs, config/validation.rs).                 *)
(***************************************************************************)
\* ServerConfigValidator::validate_path_rewrite
ValidatePathRewrite(rewrite) == rewrite # <<>> /\ rewrite[1] = "/"

\* ServerConfigValidator::validate_single_route, the checks on the modelled fields
ValidateSingleRoute(e) ==
    /\ e.prefix # <<>> /\ e.prefix[1] = "/"
    /\ e.targets # <<>>
    /\ IsSome(e.rate_limit) => e.rate_limit[1].requests > 0
    /\ IsSome(e.path_rewrite) => ValidatePathRewrite(e.path_rewrite[1])

\* ServerConfigValidator::validate_health_check_config
ValidateHealthCheckConfig(hc) ==
    ~hc.enabled \/ (hc.unhealthy_threshold # 0 /\ hc.healthy_threshold # 0)

\* ServerConfigValidator::validate
Validate(cfg) ==
    /\ cfg.routes # <<>>
    /\ \A i \in 1..Len(cfg.routes) : ValidateSingleRoute(cfg.routes[i])
    /\ ValidateHealthCheckConfig(cfg.health_check)

(***************************************************************************)
(* The gateway snapshot (core/gateway.rs).                                 *)
(***************************************************************************)
\* GatewayService::collect_backends: the targets of Proxy and LoadBalance routes
CollectBackends(routes) ==
    UNION {{routes[i].targets[j] : j \in 1..Len(routes[i].targets)} :
             i \in {k \in 1..Len(routes) : routes[k].kind \in {"Proxy", "LoadBalance"}}}

\* GatewayService::new: fresh health entries, fresh limiters, the WAF engine
GatewayServiceNew(config) ==
    [config |-> config,
     backend_health |-> [b \in CollectBackends(config.routes) |-> BackendHealthNew],
     rate_limiters |->
        [p \in {config.routes[i].prefix :
                  i \in {k \in 1..Len(config.routes) :
                           /\ IsSome(config.routes[k].rate_limit)
                           /\ LimiterBuilds(config.routes[k].rate_limit[1])}} |->
           RouteRateLimiterNew(
              (CHOOSE e \in {config.routes[i] : i \in 1..Len(config.routes)} :
                  e.prefix = p /\ IsSome(e.rate_limit)).rate_limit[1])]]

\* GatewayService::is_waf_enabled
IsWafEnabled(gw) == IsSome(gw.config.waf) /\ gw.config.waf[1].enabled

\* GatewayService::get_rate_limiter
GetRateLimiter(gw, prefix) ==
    IF prefix \in DOMAIN gw.rate_limiters THEN Some(gw.rate_limiters[prefix]) ELSE None

(***************************************************************************)
(* Path handling of the pipeline and the forwarder                         *)
(* (adapters/http_handler.rs).                                             *)
(***************************************************************************)
\* the strip_prefix middleware of route_request
StripPrefixMiddleware(path, prefix) ==
    LET new_path == StripPrefix(path, prefix)
    IN  IF IsSome(new_path)
        THEN (IF new_path[1] = <<>> THEN <<"/">> ELSE new_path[1])
        ELSE path

\* the middleware loop of route_request: strip_prefix rewrites the path, cors
\* and unknown names change nothing
RECURSIVE ApplyMiddlewares(_, _, _, _)
ApplyMiddlewares(mws, i, path, prefix) ==
    IF i > Len(mws) THEN path
    ELSE ApplyMiddlewares(mws, i + 1,
            IF mws[i] = "strip_prefix" THEN StripPrefixMiddleware(path, prefix)
            ELSE path, prefix)

\* str::trim_start_matches('/') and str::trim_end_matches('/')
RECURSIVE TrimStartSlash(_)
TrimStartSlash(s) ==
    IF s # <<>> /\ s[1] = "/" THEN TrimStartSlash(Tail(s)) ELSE s

RECURSIVE TrimEndSlash(_)
TrimEndSlash(s) ==
    IF s # <<>> /\ s[Len(s)] = "/" THEN TrimEndSlash(SubSeq(s, 1, Len(s) - 1)) ELSE s

\* the normalise_leading closure of proxy_request_to_backend
NormaliseLeading(s) ==
    IF s = <<>> THEN <<>> ELSE IF s[1] = "/" THEN s ELSE <<"/">> \o s

\* a rewriting that puts the rewrite base in front of the remainder as they are
RewrittenPathUntrimmed(path, route_prefix, path_rewrite) ==
    IF IsSome(path_rewrite)
    THEN LET stripped == StripPrefix(path, route_prefix)
         IN  path_rewrite[1] \o (IF IsSome(stripped) THEN stripped[1] ELSE path)
    ELSE path

\* the path rewriting of proxy_request_to_backend
RewrittenPath(path, route_prefix, path_rewrite) ==
    IF IsSome(path_rewrite)
    THEN LET stripped == StripPrefix(path, route_prefix)
             remaining_path == IF IsSome(stripped) THEN stripped[1] ELSE path
             rewrite == path_rewrite[1]
             base == IF rewrite = <<"/">> THEN <<"/">>
                     ELSE NormaliseLeading(TrimEndSlash(rewrite))
         IN  IF remaining_path = <<>> \/ remaining_path = <<"/">>
             THEN base
             ELSE IF base = <<"/">> THEN <<"/">> \o TrimStartSlash(remaining_path)
                  ELSE base \o <<"/">> \o TrimStartSlash(remaining_path)
    ELSE path

(***************************************************************************)
(* The configurations the source can hold.                                 *)
(***************************************************************************)
RateLimitPerIp ==
    [by |-> "Ip", header_name |-> None, requests |-> 1, period |-> 1,
     algorithm |-> "TokenBucket", status_code |-> 429,
     message |-> "Too Many Requests", on_missing_key |-> "Deny"]

RateLimitPerRoute ==
    [by |-> "Route", header_name |-> None, requests |-> 1, period |-> 1,
     algorithm |-> "TokenBucket", status_code |-> 503,
     message |-> "Slow down", on_missing_key |-> "Allow"]

\* a limit by header value without a header_name: validate_rate_limit accepts
\* it and RouteRateLimiter::new fails on it
RateLimitHeaderUnnamed ==
    [by |-> "Header", header_name |-> None, requests |-> 1, period |-> 1,
     algorithm |-> "TokenBucket", status_code |-> 429,
     message |-> "Too Many Requests", on_missing_key |-> "Deny"]

NoWafRule == [enabled |-> FALSE, block_mode |-> FALSE]
NoIpFilter == [enabled |-> FALSE, whitelist |-> {}, blacklist |-> {}]

WafSqlBlock ==
    [enabled |-> TRUE, ip_filter |-> NoIpFilter, bot_detection |-> NoWafRule,
     sql_injection |-> [enabled |-> TRUE, block_mode |-> TRUE],
     xss |-> NoWafRule, command_injection |-> NoWafRule, path_traversal |-> NoWafRule]

\* /a: proxy to X, limited per client IP
RouteA ==
    [prefix |-> <<"/", "a">>, kind |-> "Proxy", targets |-> <<"X">>, strategy |-> None,
     host |-> None, rate_limit |-> Some(RateLimitPerIp), middlewares |-> <<>>,
     path_rewrite |-> None]

\* /s: proxy to Y behind the strip_prefix middleware, limited per route
RouteS ==
    [prefix |-> <<"/", "s">>, kind |-> "Proxy", targets |-> <<"Y">>, strategy |-> None,
     host |-> None, rate_limit |-> Some(RateLimitPerRoute),
     middlewares |-> <<"strip_prefix">>,
     path_rewrite |-> None]

\* /b: proxy to Y, with a rate limit whose limiter cannot be built
RouteB ==
    [prefix |-> <<"/", "b">>, kind |-> "Proxy", targets |-> <<"Y">>, strategy |-> None,
     host |-> None, rate_limit |-> Some(RateLimitHeaderUnnamed), middlewares |-> <<>>,
     path_rewrite |-> None]

\* /q: proxy to Y with a path_rewrite the validator accepts and http::Uri rejects
RouteQ ==
    [prefix |-> <<"/", "q">>, kind |-> "Proxy", targets |-> <<"Y">>, strategy |-> None,
     host |-> None, rate_limit |-> None, middlewares |-> <<>>,
     path_rewrite |-> Some(<<"/", "x", " ">>)]

HealthOff == [enabled |-> FALSE, unhealthy_threshold |-> 3, healthy_threshold |-> 2]
HealthOn  == [enabled |-> TRUE, unhealthy_threshold |-> 3, healthy_threshold |-> 2]

\* the initial configuration
Cfg1 == [name |-> "cfg1", routes |-> <<RouteA, RouteS>>, health_check |-> HealthOn,
         waf |-> None]

\* a valid configuration without /a that keeps /s
Cfg2 == [name |-> "cfg2", routes |-> <<RouteB, RouteQ, RouteS>>, health_check |-> HealthOff,
         waf |-> Some(WafSqlBlock)]

\* a configuration that deserialises and that the validator rejects (no routes)
CfgNoRoutes == [name |-> "cfg_no_routes", routes |-> <<>>, health_check |-> HealthOff,
                waf |-> None]

\* what the source may hold: a configuration, or text that does not deserialise
Unparseable == None
SourceContents == {Some(Cfg2), Some(CfgNoRoutes), Unparseable}

\* the request paths and client addresses of the pipeline model
StatusPath == <<"/", "s", "t", "a", "t", "u", "s">>
ReqPaths == {<<"/", "a">>, <<"/", "s", "/", "a">>, <<"/", "b">>, <<"/", "q">>, StatusPath}
ReqClients == {None, Some("ip1")}
ReqTriggers == {{}, {"SQL_INJECTION"}}

(***************************************************************************)
(* State.                                                                  *)
(***************************************************************************)
VARIABLES
    \* the hot-reload task and what it publishes (main.rs)
    source,                  \* what the configuration source currently holds
    notify,                  \* change signals waiting in the watch channel (capacity 1)
    cooldown,                \* last_reload_attempt_time.elapsed() < debounce_duration
    wpc,                     \* position of the config watcher task
    writes,                  \* number of times the source was rewritten
    arcs,                    \* every Arc<ServerConfig> created, in order
    snaps,                   \* every Arc<GatewayService> created, in order
    config_holder,           \* ArcSwap<ServerConfig>: index into arcs
    gateway_service_holder,  \* ArcSwap<GatewayService>: index into snaps
    health_handle,           \* the probe loop's JoinHandle: Some(snapshot it probes)
    probe_loops,             \* the snapshots whose spawned probe loop has not been aborted
    COUNTER,                 \* the static round-robin counter of select_backend
    served,                  \* number of requests each connection has sent
    \* the requests in the pipeline (adapters/http_handler.rs)
    req,
    \* one call of find_matching_route: its arguments and its result
    matchCall,
    \* the probe loop's view of the backends and one call of select_backend
    healthState,
    \* one call of WafEngine::check_request from route_request
    wafCall,
    \* one backend under the probe loop, with the history of its probe results
    probeRun,
    \* one RouteRateLimiter under a clock, with the history of its decisions
    limiterRun,
    \* one run of ServerConfigValidator::check_route_conflicts and a lookup in its table
    validateCall,
    \* one request through the strip_prefix middleware and proxy_request_to_backend
    forwardCall,
    \* one call of handle_websocket
    wsCall,
    \* one call of ServerConfigValidator::validate_tls_config
    tlsCall,
    \* the shutdown coordinator, the tasks that trigger and await shutdown, and
    \* the server task of main with its requests
    shutdownState,
    \* one WebSocket session between a client and a backend
    wsBridge

pipeVars == <<source, notify, cooldown, wpc, writes, arcs, snaps, config_holder,
              gateway_service_holder, health_handle, probe_loops, COUNTER, served, req>>

\* the variables of the single-call models
callVars == <<validateCall, forwardCall, wsCall, tlsCall, shutdownState, wsBridge>>

\* the variables of the component models
auxVars == <<matchCall, healthState, wafCall, probeRun, limiterRun, callVars>>

vars == <<pipeVars, auxVars>>

\* a request that has not entered the pipeline
NewRequest ==
    [pc |-> "new", path |-> <<>>, opath |-> <<>>, client |-> None, trig |-> {},
     gwE |-> 0, gwR |-> 0, gwF |-> 0, prefix |-> None, backend |-> None,
     limited |-> FALSE, mw |-> FALSE, status |-> 0, body |-> "",
     scfg |-> 0, sgw |-> 0]

PipeInit ==
    /\ source = Some(Cfg1)
    /\ notify = 0
    /\ cooldown = FALSE
    /\ wpc = "idle"
    /\ writes = 0
    /\ arcs = <<Cfg1>>
    /\ snaps = <<GatewayServiceNew(Cfg1)>>
    /\ config_holder = 1
    /\ gateway_service_holder = 1
    /\ health_handle = IF Cfg1.health_check.enabled THEN Some(1) ELSE None
    /\ probe_loops = IF Cfg1.health_check.enabled THEN {1} ELSE {}
    /\ COUNTER = 0
    /\ served = [r \in Requests |-> 0]
    /\ req = [r \in Requests |-> NewRequest]

(***************************************************************************)
(* The configuration source and the watcher task (main.rs 205-287,         *)
(* adapters/config_providers/file.rs).                                     *)
(***************************************************************************)
\* the source is rewritten; the notify callback does tx.try_send(()), which is
\* dropped when the channel already holds a signal
SourceWrite(c, budget) ==
    /\ writes < budget
    /\ source' = c
    /\ writes' = writes + 1
    /\ notify' = 1
    /\ UNCHANGED auxVars
    /\ UNCHANGED <<cooldown, wpc, arcs, snaps, config_holder, gateway_service_holder,
                   health_handle, probe_loops, COUNTER, served, req>>

\* a write while requests are being served
WriteConfig(c) == SourceWrite(c, MaxWrites)

\* one write of a burst of writes
WriteBurst(c) == SourceWrite(c, MaxBurst)

\* the debounce window of the last reload attempt elapses
DebounceElapses ==
    /\ cooldown
    /\ cooldown' = FALSE
    /\ UNCHANGED auxVars
    /\ UNCHANGED <<source, notify, wpc, writes, arcs, snaps, config_holder,
                   gateway_service_holder, health_handle, probe_loops, COUNTER, served, req>>

\* notify_rx.recv() returns: inside the debounce window the signal is dropped,
\* otherwise a reload attempt starts
WatcherRecv ==
    /\ wpc = "idle"
    /\ notify = 1
    /\ notify' = 0
    /\ IF cooldown
       THEN UNCHANGED <<cooldown, wpc>>
       ELSE cooldown' = TRUE /\ wpc' = "load"
    /\ UNCHANGED auxVars
    /\ UNCHANGED <<source, writes, arcs, snaps, config_holder, gateway_service_holder,
                   health_handle, probe_loops, COUNTER, served, req>>

\* load_config() returns; on Ok the new Arc<ServerConfig> is stored in
\* config_holder, on Err the old configuration is kept and the channel drained
WatcherLoad ==
    /\ wpc = "load"
    /\ IF IsSome(source)
       THEN /\ arcs' = Append(arcs, source[1])
            /\ config_holder' = Len(arcs) + 1
            /\ wpc' = "build"
            /\ UNCHANGED notify
       ELSE /\ notify' = 0
            /\ wpc' = "idle"
            /\ UNCHANGED <<arcs, config_holder>>
    /\ UNCHANGED auxVars
    /\ UNCHANGED <<source, cooldown, writes, snaps, gateway_service_holder,
                   health_handle, probe_loops, COUNTER, served, req>>

\* GatewayService::new(new_config_arc) and gateway_service_holder.store
WatcherStoreGateway ==
    /\ wpc = "build"
    /\ snaps' = Append(snaps, GatewayServiceNew(arcs[Len(arcs)]))
    /\ gateway_service_holder' = Len(snaps) + 1
    /\ wpc' = "health"
    /\ UNCHANGED auxVars
    /\ UNCHANGED <<source, notify, cooldown, writes, arcs, config_holder,
                   health_handle, probe_loops, COUNTER, served, req>>

\* handle_guard.take() and abort() of the old probe loop, then tokio::spawn of
\* a loop on the new snapshot when its configuration enables health checks
ProbeLoopsKeepOld(loops, handle, enabled, idx) ==
    loops \cup (IF enabled THEN {idx} ELSE {})

ProbeLoopsAfterSwap(loops, handle, enabled, idx) ==
    (loops \ (IF IsSome(handle) THEN {handle[1]} ELSE {}))
        \cup (IF enabled THEN {idx} ELSE {})

\* the old probe loop is aborted, a new one is spawned when the new
\* configuration enables health checks, and the channel is drained
WatcherManageHealth ==
    /\ wpc = "health"
    /\ health_handle' = IF arcs[Len(arcs)].health_check.enabled
                        THEN Some(Len(snaps)) ELSE None
    /\ probe_loops' = ProbeLoopsAfterSwap(probe_loops, health_handle,
                                          arcs[Len(arcs)].health_check.enabled,
                                          Len(snaps))
    /\ notify' = 0
    /\ wpc' = "idle"
    /\ UNCHANGED auxVars
    /\ UNCHANGED <<source, cooldown, writes, arcs, snaps, config_holder,
                   gateway_service_holder, COUNTER, served, req>>

(***************************************************************************)
(* The request pipeline (adapters/http_handler.rs).                        *)
(***************************************************************************)
watcherVars == <<source, notify, cooldown, wpc, writes, arcs, config_holder,
                 gateway_service_holder, health_handle, probe_loops>>

\* a handler returning Err(..): handle_request records status 500
Failed(rq, msg) == [rq EXCEPT !.pc = "done", !.status = 500, !.body = msg]

\* route_request, lines 176-236: load the gateway and run the WAF
WafStage(gwi, gw, rq) ==
    LET rq1 == [rq EXCEPT !.gwE = gwi]
    IN  IF IsWafEnabled(gw) /\ WafVerdict(gw.config.waf[1], rq.trig, rq.client) = 403
        THEN [rq1 EXCEPT !.pc = "done", !.status = 403, !.body = "Request blocked by WAF"]
        ELSE [rq1 EXCEPT !.pc = "route"]

\* where route_request hands a matched request
DispatchTarget(kind) ==
    IF kind \in {"Proxy", "LoadBalance"} THEN "proxy" ELSE "other"

\* route_request, lines 248-340: load the gateway, match, rate-limit, apply the
\* middlewares, dispatch.  Yields the request and the snapshot afterwards.
RouteStage(gwi, gw, rq) ==
    LET m == FindMatchingRoute(gw.config.routes, rq.path, None)
        e == m[1]
        limiter == GetRateLimiter(gw, e.prefix)
        chk == RateLimiterCheck(limiter[1], rq.client)
        gw1 == IF IsSome(limiter)
               THEN [gw EXCEPT !.rate_limiters[e.prefix] = chk.lim] ELSE gw
        rq1 == [rq EXCEPT !.gwR = gwi, !.prefix = Some(e.prefix)]
    IN  IF IsNone(m)
        THEN [rq |-> [rq EXCEPT !.gwR = gwi, !.pc = "done", !.status = 404,
                                !.body = "Route not found"],
              gw |-> gw]
        ELSE IF IsSome(limiter) /\ ~chk.allowed
        THEN [rq |-> [rq1 EXCEPT !.pc = "done", !.limited = TRUE,
                                 !.status = chk.status, !.body = chk.body],
              gw |-> gw1]
        ELSE [rq |-> [rq1 EXCEPT !.path = ApplyMiddlewares(e.middlewares, 1, rq.path, e.prefix),
                                 !.mw = (e.middlewares # <<>>),
                                 !.pc = DispatchTarget(e.kind)],
              gw |-> gw1]

\* proxy_request_to_backend, lines 879-973: load the gateway, match again,
\* select a backend (`pick` is what select_backend returned), count the
\* connection, build the backend URI.  Yields the request and the snapshot.
ForwardStage(gwi, gw, rq, pick) ==
    LET m == FindMatchingRoute(gw.config.routes, rq.path, None)
        e == m[1]
        rq1 == [rq EXCEPT !.gwF = gwi]
        gw1 == IF pick[1] \in DOMAIN gw.backend_health
               THEN [gw EXCEPT !.backend_health[pick[1]] = IncActiveConnections(@)]
               ELSE gw
        rq2 == [rq1 EXCEPT !.backend = pick]
    IN  IF IsNone(m)
        THEN [rq |-> Failed(rq1, "No matching route found"), gw |-> gw]
        ELSE IF e.kind \notin {"Proxy", "LoadBalance"}
        THEN [rq |-> Failed(rq1, "Route is not a proxy or load balance route"), gw |-> gw]
        ELSE IF IsNone(pick)
        THEN [rq |-> Failed(rq1, "No healthy backends available"), gw |-> gw]
        ELSE IF ~UriParses(RewrittenPath(rq.path, e.prefix, e.path_rewrite))
        THEN [rq |-> Failed(rq2, "Failed to parse backend URI"), gw |-> gw1]
        ELSE [rq |-> [rq2 EXCEPT !.pc = "sending"], gw |-> gw1]

\* what select_backend may return for the route proxy_request_to_backend matched
ForwardChoices(gw, rq, counter) ==
    LET m == FindMatchingRoute(gw.config.routes, rq.path, None)
    IN  IF IsSome(m) /\ m[1].kind \in {"Proxy", "LoadBalance"}
        THEN SelectBackend(gw.config.health_check.enabled, gw.backend_health,
                           m[1].targets, m[1].strategy, counter)
        ELSE {None}

\* whether that call of select_backend advances COUNTER
ForwardAdvances(gw, rq) ==
    LET m == FindMatchingRoute(gw.config.routes, rq.path, None)
    IN  /\ IsSome(m) /\ m[1].kind \in {"Proxy", "LoadBalance"}
        /\ SelectAdvances(gw.config.health_check.enabled, gw.backend_health,
                          m[1].targets, m[1].strategy)

\* how a backend may treat a request
BackendBehaviours == {"answers", "refuses", "silent"}

\* what send_request returns for a backend that answers, refuses the
\* connection, or stays silent: every error of client.request becomes
\* ConnectionError, and no timer runs beside the request, so against a silent
\* backend the call stays pending until the transport itself gives up
SendRequest(behaviour) ==
    CASE behaviour = "answers" -> {"ok"}
      [] behaviour = "refuses" -> {"connect_error"}
      [] OTHER -> {"pending", "connect_error"}

\* the status of the response proxy_request_to_backend builds from send_request's result
BackendResultStatus(result) ==
    CASE result = "ok" -> 200
      [] result = "timeout" -> 504
      [] OTHER -> 502

\* a request enters route_request
ReqEntry(r) ==
    /\ req[r].pc = "new"
    /\ served[r] < MaxRequests
    /\ served' = [served EXCEPT ![r] = @ + 1]
    /\ \E path \in ReqPaths, client \in ReqClients, trig \in ReqTriggers :
          req' = [req EXCEPT ![r] =
                    WafStage(gateway_service_holder, snaps[gateway_service_holder],
                             [req[r] EXCEPT !.path = path, !.opath = path,
                                            !.client = client, !.trig = trig])]
    /\ UNCHANGED auxVars
    /\ UNCHANGED <<watcherVars, snaps, COUNTER>>

\* the built-in /status endpoint is recognised before routing
ReqBuiltin(r) ==
    /\ req[r].pc = "route"
    /\ req[r].path = StatusPath
    /\ req' = [req EXCEPT ![r].pc = "status"]
    /\ UNCHANGED auxVars
    /\ UNCHANGED <<watcherVars, snaps, COUNTER, served>>

\* handle_status: self.config.load_full()
ReqStatusConfig(r) ==
    /\ req[r].pc = "status"
    /\ req' = [req EXCEPT ![r].scfg = config_holder, ![r].pc = "status_gw"]
    /\ UNCHANGED auxVars
    /\ UNCHANGED <<watcherVars, snaps, COUNTER, served>>

\* handle_status: self.current_gateway(), then the response
ReqStatusGateway(r) ==
    /\ req[r].pc = "status_gw"
    /\ req' = [req EXCEPT ![r].sgw = gateway_service_holder, ![r].pc = "done",
                          ![r].status = 200, ![r].body = "status"]
    /\ UNCHANGED auxVars
    /\ UNCHANGED <<watcherVars, snaps, COUNTER, served>>

\* routing, rate limiting, middlewares, dispatch
ReqRoute(r) ==
    /\ req[r].pc = "route"
    /\ req[r].path # StatusPath
    /\ LET gwi == gateway_service_holder
           out == RouteStage(gwi, snaps[gwi], req[r])
       IN  /\ req' = [req EXCEPT ![r] = out.rq]
           /\ snaps' = [snaps EXCEPT ![gwi] = out.gw]
    /\ UNCHANGED auxVars
    /\ UNCHANGED <<watcherVars, COUNTER, served>>

\* the forwarder up to the point where the request is sent
ReqForward(r) ==
    /\ req[r].pc = "proxy"
    /\ LET gwi == gateway_service_holder
       IN  /\ \E pick \in ForwardChoices(snaps[gwi], req[r], COUNTER) :
                LET out == ForwardStage(gwi, snaps[gwi], req[r], pick)
                IN  /\ req' = [req EXCEPT ![r] = out.rq]
                    /\ snaps' = [snaps EXCEPT ![gwi] = out.gw]
           /\ COUNTER' = IF ForwardAdvances(snaps[gwi], req[r]) THEN COUNTER + 1 ELSE COUNTER
    /\ UNCHANGED auxVars
    /\ UNCHANGED <<watcherVars, served>>

\* send_request resolves: the connection count is decremented and the
\* response (or the mapped error) returned
ReqSendDone(r) ==
    /\ req[r].pc = "sending"
    /\ \E result \in UNION {SendRequest(b) : b \in BackendBehaviours} \ {"pending"} :
          req' = [req EXCEPT ![r].pc = "done", ![r].status = BackendResultStatus(result),
                             ![r].body = IF result = "ok" THEN "backend response"
                                         ELSE "Backend request failed"]
    /\ LET gwi == req[r].gwF
           b == req[r].backend[1]
       IN  snaps' = IF b \in DOMAIN snaps[gwi].backend_health
                    THEN [snaps EXCEPT ![gwi].backend_health[b] = DecActiveConnections(@)]
                    ELSE snaps
    /\ UNCHANGED auxVars
    /\ UNCHANGED <<watcherVars, COUNTER, served>>

\* the client goes away while send_request is pending: the handler future is
\* dropped at that await and nothing after it runs
ReqCancel(r) ==
    /\ req[r].pc = "sending"
    /\ req' = [req EXCEPT ![r].pc = "done", ![r].body = "cancelled"]
    /\ UNCHANGED auxVars
    /\ UNCHANGED <<watcherVars, snaps, COUNTER, served>>

\* the response has been written; the connection is ready for its next request
ReqFinish(r) ==
    /\ req[r].pc = "done"
    /\ req' = [req EXCEPT ![r] = NewRequest]
    /\ UNCHANGED auxVars
    /\ UNCHANGED <<watcherVars, snaps, COUNTER, served>>


(***************************************************************************)
(* Component model: find_matching_route on arbitrary route tables.         *)
(***************************************************************************)
MatchIdle == [pc |-> "idle", routes |-> <<>>, path |-> <<>>, host |-> None,
              result |-> None]

MatchPrefixes == {<<"/">>, <<"/", "a">>, <<"/", "a", "/", "b">>}
MatchRouteHosts == {None, Some(<<"a">>), Some(<<"B">>)}
MatchEntries == {[prefix |-> p, host |-> h] : p \in MatchPrefixes, h \in MatchRouteHosts}

\* the route tables: config.routes is a map keyed by prefix, so a table holds
\* each prefix at most once; its iteration order is arbitrary
MatchTables ==
    {t \in UNION {[1..n -> MatchEntries] : n \in 0..MaxRoutes} :
        \A i, j \in 1..Len(t) : i # j => t[i].prefix # t[j].prefix}

MatchPaths == {<<"/">>, <<"/", "a">>, <<"/", "a", "b">>, <<"/", "a", "/", "b">>,
               <<"/", "b">>}
MatchHosts == {None, Some(<<"a">>), Some(<<"A">>), Some(<<"b">>), Some(<<"x">>)}

MatchInit ==
    matchCall \in {[pc |-> "call", routes |-> t, path |-> p, host |-> h, result |-> None] :
                     t \in MatchTables, p \in MatchPaths, h \in MatchHosts}

\* gateway.find_matching_route(path, host) returns
MatchReturn ==
    /\ matchCall.pc = "call"
    /\ matchCall' = [matchCall EXCEPT
                       !.pc = "done",
                       !.result = FindMatchingRoute(matchCall.routes, matchCall.path,
                                                    matchCall.host)]
    /\ UNCHANGED <<pipeVars, healthState, wafCall, probeRun, limiterRun, callVars>>

(***************************************************************************)
(* Component model: the probe results of the health checker and            *)
(* select_backend on one snapshot.                                         *)
(***************************************************************************)
Backends == {"X", "Y"}

HealthIdle ==
    [pc |-> "idle", hc |-> HealthOff,
     backend_health |-> [b \in Backends |-> BackendHealthNew],
     targets |-> <<>>, strategy |-> None, picked |-> None]

HealthConfigs ==
    {[enabled |-> en, unhealthy_threshold |-> u, healthy_threshold |-> h] :
        en \in BOOLEAN, u \in 1..MaxThreshold, h \in 1..MaxThreshold}

TargetLists == {<<"X">>, <<"X", "Y">>, <<"Y", "X">>}
Strategies == {None, Some("RoundRobin"), Some("Random"), Some("LeastConnections")}

\* the connections that requests outside the observed ones hold open
OtherConnections ==
    {[b \in Backends |-> 0], [b \in Backends |-> IF b = "X" THEN 1 ELSE 0],
     [b \in Backends |-> IF b = "Y" THEN 1 ELSE 0]}

HealthInit ==
    healthState \in {[pc |-> "ready", hc |-> c,
                      backend_health |->
                         [b \in Backends |->
                            [BackendHealthNew EXCEPT !.active_connections = oc[b]]],
                      targets |-> t, strategy |-> s, picked |-> None] :
                        c \in HealthConfigs, t \in TargetLists, s \in Strategies,
                        oc \in OtherConnections}

\* one tick of the probe loop for backend b succeeds (the loop runs only when
\* health checks are enabled)
ProbeSuccess(b) ==
    /\ healthState.pc # "idle"
    /\ healthState.hc.enabled
    /\ healthState.backend_health[b].consecutive_successes < MaxCount
    /\ healthState' = [healthState EXCEPT !.backend_health[b] =
                          HandleHealthCheckSuccess(@, healthState.hc)]
    /\ UNCHANGED <<pipeVars, matchCall, wafCall, probeRun, limiterRun, callVars>>

\* one tick of the probe loop for backend b fails
ProbeFailure(b) ==
    /\ healthState.pc # "idle"
    /\ healthState.hc.enabled
    /\ healthState.backend_health[b].consecutive_failures < MaxCount
    /\ healthState' = [healthState EXCEPT !.backend_health[b] =
                          HandleHealthCheckFailure(@, healthState.hc)]
    /\ UNCHANGED <<pipeVars, matchCall, wafCall, probeRun, limiterRun, callVars>>

\* the forwarder calls select_backend and counts the connection on the
\* backend it was given
SelectCall ==
    /\ healthState.pc = "ready"
    /\ COUNTER < MaxCount
    /\ \E pick \in SelectBackend(healthState.hc.enabled, healthState.backend_health,
                                  healthState.targets, healthState.strategy, COUNTER) :
          healthState' =
             [healthState EXCEPT
                !.pc = "selected",
                !.picked = pick,
                !.backend_health =
                    IF IsSome(pick)
                    THEN [@ EXCEPT ![pick[1]] = IncActiveConnections(@)] ELSE @]
    /\ COUNTER' = IF SelectAdvances(healthState.hc.enabled, healthState.backend_health,
                                    healthState.targets, healthState.strategy)
                  THEN COUNTER + 1 ELSE COUNTER
    /\ UNCHANGED <<watcherVars, snaps, served, req, matchCall, wafCall, probeRun, limiterRun, callVars>>

\* the forwarder is done with the backend (or had none)
SelectDone ==
    /\ healthState.pc = "selected"
    /\ healthState' =
          [healthState EXCEPT
             !.pc = "ready",
             !.picked = None,
             !.backend_health =
                 IF IsSome(healthState.picked)
                 THEN [@ EXCEPT ![healthState.picked[1]] = DecActiveConnections(@)]
                 ELSE @]
    /\ UNCHANGED <<pipeVars, matchCall, wafCall, probeRun, limiterRun, callVars>>

(***************************************************************************)
(* Component model: one call of the WAF from route_request.                *)
(***************************************************************************)
WafIdle ==
    [pc |-> "idle", waf |-> WafSqlBlock, trig |-> {}, client_ip |-> None,
     violation |-> None, status |-> 0]

Detectors == {"BOT", "SQL_INJECTION", "XSS", "COMMAND_INJECTION", "PATH_TRAVERSAL"}

\* a detector is disabled, in log-and-pass mode, or in block mode
WafRuleModes ==
    {[enabled |-> FALSE, block_mode |-> FALSE], [enabled |-> TRUE, block_mode |-> FALSE],
     [enabled |-> TRUE, block_mode |-> TRUE]}

IpFilters ==
    {NoIpFilter, [enabled |-> TRUE, whitelist |-> {}, blacklist |-> {"ip1"}],
     [enabled |-> TRUE, whitelist |-> {"ip1"}, blacklist |-> {}]}

WafConfigs ==
    {[enabled |-> en, ip_filter |-> f, bot_detection |-> bot, sql_injection |-> sql,
      xss |-> xss, command_injection |-> cmd, path_traversal |-> pt] :
        en \in BOOLEAN, f \in IpFilters, bot \in WafRuleModes, sql \in WafRuleModes,
        xss \in WafRuleModes, cmd \in WafRuleModes, pt \in WafRuleModes}

TriggerSets == {t \in SUBSET Detectors : Cardinality(t) <= MaxTriggers}
ClientIps == {None, Some("ip1"), Some("ip2")}

WafInit ==
    wafCall \in {[pc |-> "call", waf |-> w, trig |-> t, client_ip |-> ip,
                  violation |-> None, status |-> 0] :
                    w \in WafConfigs, t \in TriggerSets, ip \in ClientIps}

\* route_request runs gateway.waf_check_request and turns the outcome into a
\* 403 or lets the request go on (status 0)
WafCheck ==
    /\ wafCall.pc = "call"
    /\ wafCall' = [wafCall EXCEPT
                     !.pc = "done",
                     !.violation = CheckRequest(wafCall.waf, wafCall.trig,
                                                wafCall.client_ip),
                     !.status = WafVerdict(wafCall.waf, wafCall.trig, wafCall.client_ip)]
    /\ UNCHANGED <<pipeVars, matchCall, healthState, probeRun, limiterRun, callVars>>

(***************************************************************************)
(* One backend under the probe loop (adapters/health_checker.rs).          *)
(***************************************************************************)
ProbeIdle ==
    [pc |-> "idle", hc |-> HealthOff, health |-> BackendHealthNew,
     results |-> <<>>, statuses |-> <<>>]

ProbeConfigs ==
    {[enabled |-> TRUE, unhealthy_threshold |-> u, healthy_threshold |-> h] :
        u \in 1..MaxProbeThreshold, h \in 1..MaxProbeThreshold}

\* a backend of a fresh snapshot: Healthy, all counters zero
ProbeInit ==
    probeRun \in {[pc |-> "run", hc |-> c, health |-> BackendHealthNew,
                   results |-> <<>>, statuses |-> <<>>] : c \in ProbeConfigs}

\* one tick of HealthChecker::run for the backend: Ok(true) is a success,
\* Ok(false) and Err(_) are failures
ProbeTick(is_healthy) ==
    /\ probeRun.pc = "run"
    /\ Len(probeRun.results) < MaxProbes
    /\ LET h == IF is_healthy
                THEN HandleHealthCheckSuccess(probeRun.health, probeRun.hc)
                ELSE HandleHealthCheckFailure(probeRun.health, probeRun.hc)
       IN  probeRun' = [probeRun EXCEPT
                          !.health = h,
                          !.results = Append(@, IF is_healthy THEN "S" ELSE "F"),
                          !.statuses = Append(@, h.status)]
    /\ UNCHANGED <<pipeVars, matchCall, healthState, wafCall, limiterRun, callVars>>

(***************************************************************************)
(* One rate limiter under a clock (adapters/rate_limiter.rs).              *)
(***************************************************************************)
LimiterIdle ==
    [pc |-> "idle", lim |-> RouteRateLimiterNew(RateLimitPerIp), now |-> 0, log |-> <<>>]

RateLimitAlgorithms == {"TokenBucket", "SlidingWindow", "FixedWindow"}

\* the per-IP limiters under the clock
LimiterConfigs ==
    {[by |-> "Ip", header_name |-> None, requests |-> n, period |-> p,
      algorithm |-> a, status_code |-> 429, message |-> "Too Many Requests",
      on_missing_key |-> m] :
        n \in 1..MaxQuota, p \in 1..MaxPeriod, a \in RateLimitAlgorithms,
        m \in {"Allow", "Deny"}}

LimiterClients == {None, Some("ip1"), Some("ip2")}

\* RouteRateLimiter::new at clock reading 0
LimiterInit ==
    limiterRun \in {[pc |-> "run", lim |-> RouteRateLimiterNew(c), now |-> 0,
                     log |-> <<>>] : c \in LimiterConfigs}

\* the clock advances by one tick
ClockAdvances ==
    /\ limiterRun.pc = "run"
    /\ limiterRun.now < MaxTime
    /\ limiterRun' = [limiterRun EXCEPT !.now = @ + 1]
    /\ UNCHANGED <<pipeVars, matchCall, healthState, wafCall, probeRun, callVars>>

\* RouteRateLimiter::check for a request of `client`; the decision is logged
LimiterCheck(client) ==
    /\ limiterRun.pc = "run"
    /\ Len(limiterRun.log) < MaxChecks
    /\ LET chk == RateLimiterCheckAt(limiterRun.lim, client, limiterRun.now)
       IN  limiterRun' = [limiterRun EXCEPT
                            !.lim = chk.lim,
                            !.log = Append(@, [t |-> limiterRun.now, key |-> client,
                                               allowed |-> chk.allowed,
                                               status |-> chk.status,
                                               body |-> chk.body])]
    /\ UNCHANGED <<pipeVars, matchCall, healthState, wafCall, probeRun, callVars>>

(***************************************************************************)
(* Component model: ServerConfigValidator::check_route_conflicts           *)
(* (config/validation.rs) on a route table, followed by a lookup in the    *)
(* accepted table.                                                         *)
(***************************************************************************)
\* str::split('/'): the pieces between the separators
RECURSIVE SplitSlash(_)
SplitSlash(s) ==
    IF \A i \in 1..Len(s) : s[i] # "/" THEN <<s>>
    ELSE LET i == CHOOSE k \in 1..Len(s) :
                    s[k] = "/" /\ \A j \in 1..(k - 1) : s[j] # "/"
         IN  <<SubSeq(s, 1, i - 1)>> \o SplitSlash(SubSeq(s, i + 1, Len(s)))

\* path.trim_matches('/').split('/').collect()
Segments(path) == SplitSlash(TrimStartSlash(TrimEndSlash(path)))

\* ServerConfigValidator::paths_conflict: equal paths, or the segments of one are
\* the leading segments of the other
PathsConflict(path1, path2) ==
    IF path1 = path2 THEN TRUE
    ELSE LET p1_segments == Segments(path1)
             p2_segments == Segments(path2)
             min_len == IF Len(p1_segments) <= Len(p2_segments)
                        THEN Len(p1_segments) ELSE Len(p2_segments)
         IN  SubSeq(p1_segments, 1, min_len) = SubSeq(p2_segments, 1, min_len)

\* the comparison of host1.map(to_lowercase) with host2.map(to_lowercase); on
\* the ASCII host names of the model to_lowercase is to_ascii_lowercase
HostsLowerEqual(host1, host2) ==
    IF IsSome(host1) /\ IsSome(host2)
    THEN ToAsciiLowercase(host1[1]) = ToAsciiLowercase(host2[1])
    ELSE IsNone(host1) /\ IsNone(host2)

\* a validator that reports no conflict at all
AcceptAllRoutes(route_entries) == TRUE

\* ServerConfigValidator::check_route_conflicts over the flattened (path, host)
\* pairs: TRUE when the error list stays empty
CheckRouteConflicts(route_entries) ==
    \A i, j \in 1..Len(route_entries) :
        i < j =>
            LET path1 == route_entries[i].prefix
                host1 == route_entries[i].host
                path2 == route_entries[j].prefix
                host2 == route_entries[j].host
            IN  IF path1 = path2
                THEN ~HostsLowerEqual(host1, host2)
                ELSE ~(IsNone(host1) /\ IsNone(host2) /\ PathsConflict(path1, path2))

ValidateIdle == [pc |-> "idle", routes |-> <<>>, path |-> <<>>, host |-> None,
                 accepted |-> FALSE, result |-> None]

ValidatePrefixes == {<<"/">>, <<"/", "a">>, <<"/", "a", "/", "b">>}
ValidateRouteHosts == {None, Some(<<"a">>), Some(<<"A">>), Some(<<"b">>)}
ValidateEntries ==
    {[prefix |-> p, host |-> h] : p \in ValidatePrefixes, h \in ValidateRouteHosts}

\* the (path, host) pairs of a route table, one per route: a RouteConfigEntry
\* holds one route or a list of routes, so a prefix may occur more than once
ValidateTables == UNION {[1..n -> ValidateEntries] : n \in 0..MaxEntries}

ValidatePaths == {<<"/">>, <<"/", "a">>, <<"/", "a", "/", "x">>,
                  <<"/", "a", "/", "b", "/", "x">>}
ValidateHosts == {None, Some(<<"a">>), Some(<<"b">>)}

ValidateInit ==
    validateCall \in {[pc |-> "call", routes |-> t, path |-> p, host |-> h,
                       accepted |-> FALSE, result |-> None] :
                        t \in ValidateTables, p \in ValidatePaths, h \in ValidateHosts}

\* ServerConfigValidator::validate reaches check_route_conflicts and returns
ValidateRoutes ==
    /\ validateCall.pc = "call"
    /\ validateCall' = [validateCall EXCEPT
                          !.pc = "validated",
                          !.accepted = CheckRouteConflicts(validateCall.routes)]
    /\ UNCHANGED <<pipeVars, matchCall, healthState, wafCall, probeRun, limiterRun,
                   forwardCall, wsCall, tlsCall, shutdownState, wsBridge>>

\* a request is matched against the table the validator accepted
ValidatedLookup ==
    /\ validateCall.pc = "validated"
    /\ validateCall.accepted
    /\ validateCall' = [validateCall EXCEPT
                          !.pc = "done",
                          !.result = FindMatchingRoute(validateCall.routes,
                                                       validateCall.path,
                                                       validateCall.host)]
    /\ UNCHANGED <<pipeVars, matchCall, healthState, wafCall, probeRun, limiterRun,
                   forwardCall, wsCall, tlsCall, shutdownState, wsBridge>>

(***************************************************************************)
(* Component model: one request through the middlewares of route_request   *)
(* and proxy_request_to_backend (adapters/http_handler.rs), up to the      *)
(* answer of HttpClientAdapter::send_request (adapters/http_client.rs).    *)
(* A request URI is a record of its path and its optional query string; a  *)
(* target is written without its "http://".                                *)
(***************************************************************************)
\* the "strip_prefix" arm of the middleware loop on the request URI: the new
\* path_and_query is built from the stripped path alone
StripPrefixUri(uri, prefix) ==
    IF IsSome(StripPrefix(uri.path, prefix))
    THEN [path |-> StripPrefixMiddleware(uri.path, prefix), query |-> None]
    ELSE uri

\* the middleware loop of route_request on the request URI
RECURSIVE ApplyMiddlewaresUri(_, _, _, _)
ApplyMiddlewaresUri(mws, i, uri, prefix) ==
    IF i > Len(mws) THEN uri
    ELSE ApplyMiddlewaresUri(mws, i + 1,
            IF mws[i] = "strip_prefix" THEN StripPrefixUri(uri, prefix) ELSE uri,
            prefix)

\* format!("{}{}?{query}", backend.trim_end_matches('/'), rewritten_path) or
\* the same without the query
BackendUri(backend, rewritten_path, query) ==
    TrimEndSlash(backend) \o rewritten_path
        \o (IF IsSome(query) THEN <<"?">> \o query[1] ELSE <<>>)

\* route_request from the route match to the dispatch, then
\* proxy_request_to_backend up to the call of send_request, for a snapshot
\* whose only route is `route`: the response status when the request ends
\* there (0 when it is sent on), and what is sent
ForwardOutcome(route, path, query) ==
    LET ended(st) == [status |-> st, backend |-> <<>>, path |-> <<>>, query |-> None,
                      uri |-> <<>>]
        matched == FindMatchingRoute(<<route>>, path, None)
        uri1 == ApplyMiddlewaresUri(route.middlewares, 1,
                                    [path |-> path, query |-> query], route.prefix)
        rematched == FindMatchingRoute(<<route>>, uri1.path, None)
        rewritten_path == RewrittenPath(uri1.path, route.prefix, route.path_rewrite)
        backend_uri == BackendUri(route.target, rewritten_path, uri1.query)
    IN  IF IsNone(matched) THEN ended(404)
        ELSE IF IsNone(rematched) THEN ended(500)
        ELSE IF ~UriParses(backend_uri) THEN ended(500)
        ELSE [status |-> 0, backend |-> route.target, path |-> rewritten_path,
              query |-> uri1.query, uri |-> backend_uri]

ForwardIdle ==
    [pc |-> "idle", route |-> [prefix |-> <<"/">>, host |-> None, middlewares |-> <<>>,
                               path_rewrite |-> None, target |-> <<"b">>],
     path |-> <<"/">>, query |-> None, behaviour |-> "answers", waited |-> 0,
     out |-> [status |-> 0, backend |-> <<>>, path |-> <<>>, query |-> None,
              uri |-> <<>>],
     status |-> 0]

ForwardPrefixes == {<<"/">>, <<"/", "r">>, <<"/", "r", "/">>}
ForwardMiddlewares == {<<>>, <<"strip_prefix">>, <<"cors">>}
ForwardRewrites ==
    {None, Some(<<"/">>), Some(<<"/", "x">>), Some(<<"/", "x", "/">>), Some(<<"x">>),
     Some(<<"/", "/">>), Some(<<"/", "x", "/", "/", "y">>), Some(<<"/", "x", " ">>)}
ForwardTargets == {<<"b">>, <<"b", "/">>}
ForwardRoutes ==
    {[prefix |-> p, host |-> None, middlewares |-> m, path_rewrite |-> w, target |-> t] :
        p \in ForwardPrefixes, m \in ForwardMiddlewares, w \in ForwardRewrites,
        t \in ForwardTargets}
ForwardPaths ==
    {<<"/">>, <<"/", "r">>, <<"/", "r", "/">>, <<"/", "r", "/", "f">>,
     <<"/", "r", "/", "f", "/", "g">>, <<"/", "r", "/", "r", "/", "f">>,
     <<"/", "r", "/", "/", "f">>, <<"/", "f">>}
ForwardQueries == {None, Some(<<"q">>)}

ForwardInit ==
    forwardCall \in {[ForwardIdle EXCEPT !.pc = "call", !.route = rt, !.path = p,
                                        !.query = q, !.behaviour = b] :
                        rt \in ForwardRoutes, p \in ForwardPaths, q \in ForwardQueries,
                        b \in BackendBehaviours}

\* the handler runs from the route match to the call of send_request
ForwardRequest ==
    /\ forwardCall.pc = "call"
    /\ LET out == ForwardOutcome(forwardCall.route, forwardCall.path, forwardCall.query)
       IN  forwardCall' = [forwardCall EXCEPT
                             !.out = out,
                             !.status = out.status,
                             !.pc = IF out.status = 0 THEN "sending" ELSE "done"]
    /\ UNCHANGED <<pipeVars, matchCall, healthState, wafCall, probeRun, limiterRun,
                   validateCall, wsCall, tlsCall, shutdownState, wsBridge>>

\* time passes while send_request is pending
ForwardWait ==
    /\ forwardCall.pc = "sending"
    /\ "pending" \in SendRequest(forwardCall.behaviour)
    /\ forwardCall.waited < MaxWait
    /\ forwardCall' = [forwardCall EXCEPT !.waited = @ + 1]
    /\ UNCHANGED <<pipeVars, matchCall, healthState, wafCall, probeRun, limiterRun,
                   validateCall, wsCall, tlsCall, shutdownState, wsBridge>>

\* send_request returns and the handler builds the response
ForwardSendDone ==
    /\ forwardCall.pc = "sending"
    /\ \E result \in SendRequest(forwardCall.behaviour) \ {"pending"} :
          forwardCall' = [forwardCall EXCEPT !.pc = "done",
                                             !.status = BackendResultStatus(result)]
    /\ UNCHANGED <<pipeVars, matchCall, healthState, wafCall, probeRun, limiterRun,
                   validateCall, wsCall, tlsCall, shutdownState, wsBridge>>

(***************************************************************************)
(* Component model: one request for a WebSocket route through the          *)
(* middlewares of route_request and handle_websocket                       *)
(* (adapters/http_handler.rs), up to the response of the handshake.        *)
(***************************************************************************)
\* the path rewriting of handle_websocket
WsRewrittenPath(path, route_prefix, path_rewrite) ==
    LET stripped == StripPrefix(path, route_prefix)
        remaining_path == IF IsSome(stripped) THEN stripped[1] ELSE path
    IN  IF IsSome(path_rewrite)
        THEN LET rewrite == path_rewrite[1]
                 rp == TrimStartSlash(remaining_path)
             IN  IF rewrite = <<"/">>
                 THEN (IF rp = <<>> THEN <<"/">> ELSE <<"/">> \o rp)
                 ELSE IF rp = <<>> THEN rewrite
                 ELSE TrimEndSlash(rewrite) \o <<"/">> \o rp
        ELSE path

Websocket == <<"w", "e", "b", "s", "o", "c", "k", "e", "t">>

\* route_request from the route match to the dispatch, then handle_websocket
\* up to its response, for a snapshot whose only route is the Websocket route
\* `route`: the status of the response and the path of the backend URL
WsOutcome(route, path, upgrade, has_key) ==
    LET ended(st) == [status |-> st, path |-> <<>>]
        matched == FindMatchingRoute(<<route>>, path, None)
        uri1 == ApplyMiddlewaresUri(route.middlewares, 1,
                                    [path |-> path, query |-> None], route.prefix)
        upgrade_lower == IF IsSome(upgrade) THEN Some(ToAsciiLowercase(upgrade[1]))
                         ELSE None
        rematched == FindMatchingRoute(<<route>>, uri1.path, None)
    IN  IF IsNone(matched) THEN ended(404)
        ELSE IF upgrade_lower # Some(Websocket) THEN ended(400)
        ELSE IF IsNone(rematched) THEN ended(500)
        ELSE IF ~has_key THEN ended(500)
        ELSE [status |-> 101,
              path |-> WsRewrittenPath(uri1.path, route.prefix, route.path_rewrite)]

WsIdle ==
    [pc |-> "idle", route |-> [prefix |-> <<"/">>, host |-> None, middlewares |-> <<>>,
                               path_rewrite |-> None, target |-> <<"b">>],
     path |-> <<"/">>, upgrade |-> None, has_key |-> FALSE,
     out |-> [status |-> 0, path |-> <<>>]]

\* the Upgrade header of the request: absent, or one of these values
WsUpgrades ==
    {None, Some(Websocket), Some(<<"W", "e", "b", "S", "o", "c", "k", "e", "t">>),
     Some(<<"h", "2", "c">>)}

WsRoutes == {rt \in ForwardRoutes : rt.middlewares # <<"cors">> /\ rt.target = <<"b">>}

WsInit ==
    wsCall \in {[WsIdle EXCEPT !.pc = "call", !.route = rt, !.path = p, !.upgrade = u,
                               !.has_key = k] :
                  rt \in WsRoutes, p \in ForwardPaths, u \in WsUpgrades, k \in BOOLEAN}

\* the handler runs from the route match to the response of the handshake
WsHandshake ==
    /\ wsCall.pc = "call"
    /\ wsCall' = [wsCall EXCEPT
                    !.pc = "done",
                    !.out = WsOutcome(wsCall.route, wsCall.path, wsCall.upgrade,
                                      wsCall.has_key)]
    /\ UNCHANGED <<pipeVars, matchCall, healthState, wafCall, probeRun, limiterRun,
                   validateCall, forwardCall, tlsCall, shutdownState, wsBridge>>

(***************************************************************************)
(* Component model: ServerConfigValidator::validate_tls_config             *)
(* (config/validation.rs) on one TLS block. A path is described by what    *)
(* the file system holds under it.                                         *)
(***************************************************************************)
\* std::path::Path::exists: true for a file and for a directory
PathExists(path) == path \in {"file", "dir"}

\* str::trim on the e-mail strings of the model
RECURSIVE TrimSpaces(_)
TrimSpaces(s) ==
    IF s # <<>> /\ s[1] = " " THEN TrimSpaces(Tail(s))
    ELSE IF s # <<>> /\ s[Len(s)] = " " THEN TrimSpaces(SubSeq(s, 1, Len(s) - 1))
    ELSE s

\* ServerConfigValidator::validate_tls_config: TRUE for Ok(())
ValidateTlsConfig(config) ==
    IF IsSome(config.cert_path) /\ IsSome(config.key_path)
    THEN PathExists(config.cert_path[1]) /\ PathExists(config.key_path[1])
    ELSE IF IsSome(config.acme)
         THEN config.acme[1].domains # <<>> /\ TrimSpaces(config.acme[1].email) # <<>>
         ELSE FALSE

TlsIdle ==
    [pc |-> "idle", config |-> [cert_path |-> None, key_path |-> None, acme |-> None],
     accepted |-> FALSE]

TlsPaths == {None, Some("file"), Some("dir"), Some("missing")}
TlsAcmes ==
    {None} \cup {Some([domains |-> d, email |-> e]) :
                    d \in {<<>>, <<"example.com">>},
                    e \in {<<>>, <<" ">>, <<"e">>}}
TlsConfigs ==
    {[cert_path |-> c, key_path |-> k, acme |-> a] :
        c \in TlsPaths, k \in TlsPaths, a \in TlsAcmes}

TlsInit ==
    tlsCall \in {[pc |-> "call", config |-> c, accepted |-> FALSE] : c \in TlsConfigs}

\* ServerConfigValidator::validate calls validate_tls_config for the TLS block
ValidateTls ==
    /\ tlsCall.pc = "call"
    /\ tlsCall' = [tlsCall EXCEPT !.pc = "done",
                                  !.accepted = ValidateTlsConfig(tlsCall.config)]
    /\ UNCHANGED <<pipeVars, matchCall, healthState, wafCall, probeRun, limiterRun,
                   validateCall, forwardCall, wsCall, shutdownState, wsBridge>>

(***************************************************************************)
(* Component model: GracefulShutdown (utils/graceful_shutdown.rs) with the *)
(* tasks that trigger shutdown, the tasks that await it, and the server    *)
(* task of main (main.rs) with a request in flight.                        *)
(***************************************************************************)
Triggers == {"t1", "t2"}
Waiters == {"w1", "w2"}
ShutdownRequests == {"q1"}
ShutdownReasons == {"Graceful", "Restart"}

\* GracefulShutdown::new: Duration::from_secs(30)
ShutdownTimeoutSecs == 30
WaitKinds == {"wait_for_shutdown", "wait_for_shutdown_signal", "token"}

\* a compare_exchange that succeeds whatever the flag holds
CompareExchangeAlways(flag) == TRUE

\* shutdown_initiated.compare_exchange(false, true, ..).is_ok()
CompareExchangeWins(flag) == ~flag

\* the receivers that are alive: those of the awaiting tasks and that of main
LiveReceivers(sd) ==
    Cardinality({w \in Waiters : sd.wait[w].pc \in {"subscribed", "waiting"}
                                    \/ (sd.wait[w].kind = "token"
                                          /\ sd.wait[w].pc = "returned")})
        + (IF sd.main.pc = "serving" THEN 1 ELSE 0)

\* broadcast::Sender::send: the value is queued for the receivers alive at
\* this moment; without any receiver it is returned to the caller as an error
BroadcastSend(sd, reason) ==
    IF LiveReceivers(sd) > 0 THEN [sd EXCEPT !.log = Append(@, reason)] ELSE sd

ShutdownFresh(reasons, kinds) ==
    [initiated |-> FALSE, log |-> <<>>,
     trig |-> [t \in Triggers |-> [pc |-> "idle", reason |-> reasons[t]]],
     wait |-> [w \in Waiters |-> [kind |-> kinds[w], pc |-> "idle", cursor |-> 0,
                                  after |-> FALSE, got |-> <<>>]],
     main |-> [pc |-> "starting", cursor |-> 0, drained |-> 0],
     reqs |-> [q \in ShutdownRequests |-> "none"]]

ShutdownIdle ==
    [ShutdownFresh([t \in Triggers |-> "Graceful"],
                   [w \in Waiters |-> "token"]) EXCEPT !.main.pc = "idle"]

ShutdownInit ==
    shutdownState \in {ShutdownFresh(rs, ks) :
                         rs \in [Triggers -> ShutdownReasons], ks \in [Waiters -> WaitKinds]}

shutdownFrame ==
    <<pipeVars, matchCall, healthState, wafCall, probeRun, limiterRun,
      validateCall, forwardCall, wsCall, tlsCall, wsBridge>>

\* trigger_shutdown / initiate_shutdown, first half: the compare_exchange on
\* shutdown_initiated
TriggerCas(t) ==
    /\ shutdownState.main.pc # "idle"
    /\ shutdownState.trig[t].pc = "idle"
    /\ shutdownState' =
          IF CompareExchangeWins(shutdownState.initiated)
          THEN [shutdownState EXCEPT !.initiated = TRUE, !.trig[t].pc = "won"]
          ELSE [shutdownState EXCEPT !.trig[t].pc = "done"]
    /\ UNCHANGED shutdownFrame

\* trigger_shutdown / initiate_shutdown, second half: the winner of the
\* compare_exchange sends its reason
TriggerSend(t) ==
    /\ shutdownState.trig[t].pc = "won"
    /\ shutdownState' =
          [BroadcastSend(shutdownState, shutdownState.trig[t].reason)
             EXCEPT !.trig[t].pc = "sent"]
    /\ UNCHANGED shutdownFrame

\* self.subscribe(): at the start of wait_for_shutdown and
\* wait_for_shutdown_signal, and in shutdown_token(); the receiver sees the
\* values sent after this call
Subscribe(w) ==
    /\ shutdownState.main.pc # "idle"
    /\ shutdownState.wait[w].pc = "idle"
    /\ shutdownState' =
          [shutdownState EXCEPT
             !.wait[w].cursor = Len(shutdownState.log),
             !.wait[w].after = shutdownState.initiated,
             !.wait[w].pc = IF shutdownState.wait[w].kind = "token"
                            THEN "subscribed" ELSE "waiting"]
    /\ UNCHANGED shutdownFrame

\* the holder of a ShutdownToken calls wait_for_shutdown on it
TokenWait(w) ==
    /\ shutdownState.wait[w].kind = "token"
    /\ shutdownState.wait[w].pc = "subscribed"
    /\ shutdownState' = [shutdownState EXCEPT
                           !.wait[w].pc = "waiting",
                           !.wait[w].after = shutdownState.initiated]
    /\ UNCHANGED shutdownFrame

\* receiver.recv() resolves with the next value of the channel
Recv(w) ==
    /\ shutdownState.wait[w].pc = "waiting"
    /\ shutdownState.wait[w].cursor < Len(shutdownState.log)
    /\ shutdownState' =
          [shutdownState EXCEPT
             !.wait[w].pc = "returned",
             !.wait[w].cursor = @ + 1,
             !.wait[w].got =
                 Append(@, shutdownState.log[shutdownState.wait[w].cursor + 1])]
    /\ UNCHANGED shutdownFrame

\* the timeout of wait_for_shutdown elapses first: it returns Force
WaitTimeout(w) ==
    /\ shutdownState.wait[w].kind = "wait_for_shutdown"
    /\ shutdownState.wait[w].pc = "waiting"
    /\ shutdownState' = [shutdownState EXCEPT !.wait[w].pc = "returned",
                                              !.wait[w].got = Append(@, "Force")]
    /\ UNCHANGED shutdownFrame

\* main reaches its select!: axum::serve starts accepting and
\* wait_for_shutdown_signal subscribes
MainServe ==
    /\ shutdownState.main.pc = "starting"
    /\ shutdownState' = [shutdownState EXCEPT
                           !.main.pc = "serving",
                           !.main.cursor = Len(shutdownState.log)]
    /\ UNCHANGED shutdownFrame

\* a request is accepted by the server
RequestAccepted(q) ==
    /\ shutdownState.main.pc = "serving"
    /\ shutdownState.reqs[q] = "none"
    /\ shutdownState' = [shutdownState EXCEPT !.reqs[q] = "in_flight"]
    /\ UNCHANGED shutdownFrame

\* a request in flight gets its response
RequestCompletes(q) ==
    /\ shutdownState.main.pc = "serving"
    /\ shutdownState.reqs[q] = "in_flight"
    /\ shutdownState' = [shutdownState EXCEPT !.reqs[q] = "finished"]
    /\ UNCHANGED shutdownFrame

\* the wait_for_shutdown_signal branch of main's select! wins: the serve
\* future is dropped, main aborts the health checker and returns, and the
\* runtime goes down with it; nothing waits for the requests in flight
MainShutdown ==
    /\ shutdownState.main.pc = "serving"
    /\ shutdownState.main.cursor < Len(shutdownState.log)
    /\ shutdownState' =
          [shutdownState EXCEPT
             !.main.pc = "exited",
             !.main.drained = 0,
             !.reqs = [q \in ShutdownRequests |->
                         IF shutdownState.reqs[q] = "in_flight" THEN "cut"
                         ELSE shutdownState.reqs[q]]]
    /\ UNCHANGED shutdownFrame

(***************************************************************************)
(* Component model: the bridge task spawned by handle_websocket            *)
(* (adapters/http_handler.rs): two copiers raced by one select!, each      *)
(* under tokio::time::timeout when idle_timeout_secs is set.               *)
(***************************************************************************)
Directions == {"client_to_backend", "backend_to_client"}

\* the peer a copier writes to
PeerOf(d) == IF d = "client_to_backend" THEN "backend" ELSE "client"

Peers == {"client", "backend"}
FrameKinds == {"data", "close"}
StreamEnds == {"clean", "error"}

BridgeFresh(idle_timeout) ==
    [pc |-> "open", idle_timeout |-> idle_timeout, elapsed |-> 0,
     copier |-> [d \in Directions |-> "copying"],
     ended |-> [d \in Directions |-> "no"],
     idle |-> [d \in Directions |-> 0],
     writable |-> [p \in Peers |-> TRUE],
     close_sent |-> [p \in Peers |-> FALSE],
     closed_by |-> "none"]

BridgeIdle == [BridgeFresh(None) EXCEPT !.pc = "idle"]

BridgeInit ==
    wsBridge \in {BridgeFresh(t) : t \in {None} \cup {Some(n) : n \in 1..MaxIdleTimeout}}

bridgeFrame ==
    <<pipeVars, matchCall, healthState, wafCall, probeRun, limiterRun,
      validateCall, forwardCall, wsCall, tlsCall, shutdownState>>

\* a copier that leaves its loop without the trailing Close
NoCloseAfterLoop(bridge, d) == bridge

\* let _ = tx.send(Message::Close(None)).await with a peer that takes it
CloseAfterLoop(bridge, d) == [bridge EXCEPT !.close_sent[PeerOf(d)] = TRUE]

\* a branch of the select! completed: the other copier is dropped where it
\* stands and the task ends
BridgeSelectDone(bridge, by) ==
    [bridge EXCEPT !.pc = "closed", !.closed_by = by,
                   !.copier = [d \in Directions |->
                                 IF d = by THEN "done"
                                 ELSE IF bridge.copier[d] = "done" THEN "done"
                                 ELSE "dropped"]]

\* one iteration of a copier: rx.next() yields a frame and tx.send(m)
\* delivers it to the other peer
CopyFrame(d, kind) ==
    /\ wsBridge.pc = "open"
    /\ wsBridge.copier[d] = "copying"
    /\ wsBridge.writable[PeerOf(d)]
    /\ wsBridge' = [wsBridge EXCEPT
                      !.idle[d] = 0,
                      !.close_sent[PeerOf(d)] = @ \/ kind = "close"]
    /\ UNCHANGED bridgeFrame

\* rx.next() yields None (a clean end) or Err: the loop is left and Close(None)
\* is sent to the other peer; with a peer that takes the frame the copier
\* completes in this same poll and with it the select!, otherwise the send
\* stays pending
CopierLoopEnds(d, how) ==
    /\ wsBridge.pc = "open"
    /\ wsBridge.copier[d] = "copying"
    /\ wsBridge' =
          IF wsBridge.writable[PeerOf(d)]
          THEN BridgeSelectDone(CloseAfterLoop([wsBridge EXCEPT !.ended[d] = how], d), d)
          ELSE [wsBridge EXCEPT !.ended[d] = how \o "_blocked", !.copier[d] = "closing"]
    /\ UNCHANGED bridgeFrame

\* tx.send(m) fails: the loop is left, the Close that follows fails on the
\* same broken sink and its error is ignored
CopierSendFails(d) ==
    /\ wsBridge.pc = "open"
    /\ wsBridge.copier[d] = "copying"
    /\ wsBridge' = BridgeSelectDone([wsBridge EXCEPT !.ended[d] = "send_failed"], d)
    /\ UNCHANGED bridgeFrame

\* the socket of a peer stops or resumes taking bytes
PeerWritable(p, w) ==
    /\ wsBridge.pc = "open"
    /\ wsBridge.writable[p] # w
    /\ wsBridge' = [wsBridge EXCEPT !.writable[p] = w]
    /\ UNCHANGED bridgeFrame

\* a pending send of Close(None) is flushed
CloseFlushed(d) ==
    /\ wsBridge.pc = "open"
    /\ wsBridge.copier[d] = "closing"
    /\ wsBridge.writable[PeerOf(d)]
    /\ wsBridge' = BridgeSelectDone(CloseAfterLoop(wsBridge, d), d)
    /\ UNCHANGED bridgeFrame

\* the deadline of tokio::time::timeout(timeout, copier): the timer is set
\* once, when the copier future is first polled
TimeoutDue(bridge) ==
    bridge.idle_timeout # None /\ bridge.elapsed >= bridge.idle_timeout[1]

\* one second passes
BridgeTick ==
    /\ wsBridge.pc = "open"
    /\ ~TimeoutDue(wsBridge)
    /\ wsBridge.elapsed < MaxSession
    /\ wsBridge' = [wsBridge EXCEPT
                      !.elapsed = @ + 1,
                      !.idle = [d \in Directions |-> wsBridge.idle[d] + 1]]
    /\ UNCHANGED bridgeFrame

\* a timeout branch of the select! completes with Elapsed: both copiers are
\* dropped
BridgeTimeout ==
    /\ wsBridge.pc = "open"
    /\ TimeoutDue(wsBridge)
    /\ wsBridge' = [wsBridge EXCEPT !.pc = "closed", !.closed_by = "timeout",
                                    !.copier = [d \in Directions |-> "dropped"]]
    /\ UNCHANGED bridgeFrame

\* the single-call models at rest
LateIdle ==
    /\ tlsCall = TlsIdle
    /\ shutdownState = ShutdownIdle
    /\ wsBridge = BridgeIdle

CallsIdle ==
    /\ validateCall = ValidateIdle
    /\ forwardCall = ForwardIdle
    /\ wsCall = WsIdle
    /\ LateIdle

(***************************************************************************)
(* Component model: a reload of an unchanged configuration in front of     *)
(* the probe loop and select_backend.                                      *)
(***************************************************************************)
\* the watcher stores a new GatewayService built from a configuration with the
\* same backends and health settings: GatewayService::new inserts
\* BackendHealth::new for every backend, and the probe loop is restarted on it
HealthReload ==
    /\ healthState.pc = "ready"
    /\ healthState' = [healthState EXCEPT
                         !.backend_health = [b \in Backends |-> BackendHealthNew]]
    /\ UNCHANGED <<pipeVars, matchCall, wafCall, probeRun, limiterRun, callVars>>

(***************************************************************************)
(* The pipeline under hot reload.                                          *)
(***************************************************************************)
Init ==
    /\ PipeInit
    /\ matchCall = MatchIdle
    /\ healthState = HealthIdle
    /\ wafCall = WafIdle
    /\ probeRun = ProbeIdle
    /\ limiterRun = LimiterIdle
    /\ CallsIdle

Next ==
    \/ \E c \in SourceContents : WriteConfig(c)
    \/ DebounceElapses
    \/ WatcherRecv
    \/ WatcherLoad
    \/ WatcherStoreGateway
    \/ WatcherManageHealth
    \/ \E r \in Requests : ReqEntry(r)
    \/ \E r \in Requests : ReqBuiltin(r)
    \/ \E r \in Requests : ReqStatusConfig(r)
    \/ \E r \in Requests : ReqStatusGateway(r)
    \/ \E r \in Requests : ReqRoute(r)
    \/ \E r \in Requests : ReqForward(r)
    \/ \E r \in Requests : ReqSendDone(r)
    \/ \E r \in Requests : ReqCancel(r)
    \/ \E r \in Requests : ReqFinish(r)

Spec == Init /\ [][Next]_vars

(***************************************************************************)
(* Route matching on its own.                                              *)
(***************************************************************************)
InitMatch ==
    /\ PipeInit
    /\ MatchInit
    /\ healthState = HealthIdle
    /\ wafCall = WafIdle
    /\ probeRun = ProbeIdle
    /\ limiterRun = LimiterIdle
    /\ CallsIdle

NextMatch == MatchReturn

SpecMatch == InitMatch /\ [][NextMatch]_vars

(***************************************************************************)
(* Health tracking and backend selection on one snapshot.                  *)
(***************************************************************************)
InitHealth ==
    /\ PipeInit
    /\ matchCall = MatchIdle
    /\ HealthInit
    /\ wafCall = WafIdle
    /\ probeRun = ProbeIdle
    /\ limiterRun = LimiterIdle
    /\ CallsIdle

NextHealth ==
    \/ \E b \in Backends : ProbeSuccess(b)
    \/ \E b \in Backends : ProbeFailure(b)
    \/ SelectCall
    \/ SelectDone

SpecHealth == InitHealth /\ [][NextHealth]_vars

(***************************************************************************)
(* The WAF on its own.                                                     *)
(***************************************************************************)
InitWaf ==
    /\ PipeInit
    /\ matchCall = MatchIdle
    /\ healthState = HealthIdle
    /\ WafInit
    /\ probeRun = ProbeIdle
    /\ limiterRun = LimiterIdle
    /\ CallsIdle

NextWaf == WafCheck

SpecWaf == InitWaf /\ [][NextWaf]_vars

(***************************************************************************)
(* The probe loop on one backend.                                          *)
(***************************************************************************)
InitProbes ==
    /\ PipeInit
    /\ matchCall = MatchIdle
    /\ healthState = HealthIdle
    /\ wafCall = WafIdle
    /\ ProbeInit
    /\ limiterRun = LimiterIdle
    /\ CallsIdle

NextProbes ==
    \/ ProbeTick(TRUE)
    \/ ProbeTick(FALSE)

SpecProbes == InitProbes /\ [][NextProbes]_vars

(***************************************************************************)
(* One rate limiter under a clock.                                         *)
(***************************************************************************)
InitLimiter ==
    /\ PipeInit
    /\ matchCall = MatchIdle
    /\ healthState = HealthIdle
    /\ wafCall = WafIdle
    /\ probeRun = ProbeIdle
    /\ LimiterInit
    /\ CallsIdle

NextLimiter ==
    \/ ClockAdvances
    \/ \E c \in LimiterClients : LimiterCheck(c)

SpecLimiter == InitLimiter /\ [][NextLimiter]_vars

(***************************************************************************)
(* The configuration watcher on its own, under a burst of writes.          *)
(***************************************************************************)
(* The route-conflict check and a lookup in the accepted table.            *)
(***************************************************************************)
InitValidate ==
    /\ PipeInit
    /\ matchCall = MatchIdle
    /\ healthState = HealthIdle
    /\ wafCall = WafIdle
    /\ probeRun = ProbeIdle
    /\ limiterRun = LimiterIdle
    /\ ValidateInit
    /\ forwardCall = ForwardIdle
    /\ wsCall = WsIdle
    /\ LateIdle

NextValidate ==
    \/ ValidateRoutes
    \/ ValidatedLookup

SpecValidate == InitValidate /\ [][NextValidate]_vars

(***************************************************************************)
(* The dispatch of one request to a proxy route or to a WebSocket route.   *)
(***************************************************************************)
InitDispatch ==
    /\ PipeInit
    /\ matchCall = MatchIdle
    /\ healthState = HealthIdle
    /\ wafCall = WafIdle
    /\ probeRun = ProbeIdle
    /\ limiterRun = LimiterIdle
    /\ validateCall = ValidateIdle
    /\ \/ ForwardInit /\ wsCall = WsIdle
       \/ forwardCall = ForwardIdle /\ WsInit
    /\ LateIdle

NextDispatch ==
    \/ ForwardRequest
    \/ ForwardWait
    \/ ForwardSendDone
    \/ WsHandshake

SpecDispatch == InitDispatch /\ [][NextDispatch]_vars

(***************************************************************************)
(* The probe loop and select_backend under reloads.                        *)
(***************************************************************************)
NextHealthReload ==
    \/ NextHealth
    \/ HealthReload

SpecHealthReload == InitHealth /\ [][NextHealthReload]_vars

(***************************************************************************)
(* The validation of one TLS block.                                        *)
(***************************************************************************)
InitTls ==
    /\ PipeInit
    /\ matchCall = MatchIdle
    /\ healthState = HealthIdle
    /\ wafCall = WafIdle
    /\ probeRun = ProbeIdle
    /\ limiterRun = LimiterIdle
    /\ validateCall = ValidateIdle
    /\ forwardCall = ForwardIdle
    /\ wsCall = WsIdle
    /\ TlsInit
    /\ shutdownState = ShutdownIdle
    /\ wsBridge = BridgeIdle

NextTls == ValidateTls

SpecTls == InitTls /\ [][NextTls]_vars

(***************************************************************************)
(* Shutdown: triggers, awaiting tasks and the server task.                 *)
(***************************************************************************)
InitShutdown ==
    /\ PipeInit
    /\ matchCall = MatchIdle
    /\ healthState = HealthIdle
    /\ wafCall = WafIdle
    /\ probeRun = ProbeIdle
    /\ limiterRun = LimiterIdle
    /\ validateCall = ValidateIdle
    /\ forwardCall = ForwardIdle
    /\ wsCall = WsIdle
    /\ tlsCall = TlsIdle
    /\ ShutdownInit
    /\ wsBridge = BridgeIdle

NextShutdown ==
    \/ \E t \in Triggers : TriggerCas(t)
    \/ \E t \in Triggers : TriggerSend(t)
    \/ \E w \in Waiters : Subscribe(w)
    \/ \E w \in Waiters : TokenWait(w)
    \/ \E w \in Waiters : Recv(w)
    \/ \E w \in Waiters : WaitTimeout(w)
    \/ MainServe
    \/ \E q \in ShutdownRequests : RequestAccepted(q)
    \/ \E q \in ShutdownRequests : RequestCompletes(q)
    \/ MainShutdown

SpecShutdown == InitShutdown /\ [][NextShutdown]_vars

\* the same with the scheduling of the runtime: a task that can run does run,
\* a recv with a value waiting resolves, a timer that was set fires
SpecShutdownFair ==
    /\ SpecShutdown
    /\ \A t \in Triggers : WF_vars(TriggerSend(t))
    /\ \A w \in Waiters : WF_vars(Recv(w)) /\ WF_vars(WaitTimeout(w))
    /\ WF_vars(MainShutdown)

(***************************************************************************)
(* One WebSocket session from its first poll to the end of its task.       *)
(***************************************************************************)
InitBridge ==
    /\ PipeInit
    /\ matchCall = MatchIdle
    /\ healthState = HealthIdle
    /\ wafCall = WafIdle
    /\ probeRun = ProbeIdle
    /\ limiterRun = LimiterIdle
    /\ validateCall = ValidateIdle
    /\ forwardCall = ForwardIdle
    /\ wsCall = WsIdle
    /\ tlsCall = TlsIdle
    /\ shutdownState = ShutdownIdle
    /\ BridgeInit

NextBridge ==
    \/ \E d \in Directions, kind \in FrameKinds : CopyFrame(d, kind)
    \/ \E d \in Directions, how \in StreamEnds : CopierLoopEnds(d, how)
    \/ \E d \in Directions : CopierSendFails(d)
    \/ \E p \in Peers, w \in BOOLEAN : PeerWritable(p, w)
    \/ \E d \in Directions : CloseFlushed(d)
    \/ BridgeTick
    \/ BridgeTimeout

SpecBridge == InitBridge /\ [][NextBridge]_vars

(***************************************************************************)
\* what a burst may write: the reloadable contents and the initial one again
BurstContents == SourceContents \cup {Some(Cfg1)}

NextWatcher ==
    \/ \E c \in BurstContents : WriteBurst(c)
    \/ DebounceElapses
    \/ WatcherRecv
    \/ WatcherLoad
    \/ WatcherStoreGateway
    \/ WatcherManageHealth

SpecWatcher == Init /\ [][NextWatcher]_vars

(***************************************************************************)
(* Properties of the pipeline under hot reload (Spec).                     *)
(***************************************************************************)
\* the snapshots a request has consulted so far: at entry (WAF), for routing
\* and rate limiting, in the forwarder, in handle_status
SnapshotsUsed(q) == {q.gwE, q.gwR, q.gwF, q.sgw} \ {0}

\* C1: every request loads the gateway snapshot exactly once and uses that one
\* snapshot for all its lookups, so under any interleaving with configuration
\* swaps the snapshots a request has consulted are one and the same.
C1_OneSnapshotPerRequest ==
    \A r \in Requests : Cardinality(SnapshotsUsed(req[r])) <= 1

\* C2: a swap to a validated configuration never drops an in-flight request: a
\* request that was matched to a route and passed its limiter, and whose path
\* no middleware rewrote, is never answered "No matching route found" by a
\* forwarder that ran on the snapshot of a validated configuration.
C2_SwapNeverDropsInFlight ==
    \A r \in Requests :
        LET q == req[r]
        IN  (/\ q.pc = "done" /\ IsSome(q.prefix) /\ ~q.limited
             /\ q.path = q.opath
             /\ q.gwF # 0 /\ Validate(snaps[q.gwF].config))
            => q.body # "No matching route found"

\* C3: a reload whose configuration fails to load or fails validation changes
\* nothing: a failed load leaves the published ServerConfig, the current
\* snapshot and the probe loop alone, and each of the three changes only to a
\* configuration that the validator accepts.
C3_BadReloadChangesNothing ==
    [][/\ (wpc = "load" /\ IsNone(source))
            => UNCHANGED <<config_holder, gateway_service_holder, health_handle>>
       /\ config_holder' # config_holder => Validate(arcs'[config_holder'])
       /\ gateway_service_holder' # gateway_service_holder
            => Validate(snaps'[gateway_service_holder'].config)
       /\ health_handle' # health_handle => Validate(arcs[Len(arcs)])]_vars

\* C4: a reload publishes the new state in one atomic step: the ServerConfig
\* and the gateway snapshot that handle_status has read belong together.
C4_ReadersSeeOneSnapshot ==
    \A r \in Requests :
        req[r].sgw # 0 => snaps[req[r].sgw].config = arcs[req[r].scfg]

\* C7: every increment of active_connections is paired with one decrement on
\* every exit path of the forwarder: the counter is never negative, and when no
\* request is in flight every counter of every snapshot is zero.
C7_ConnectionsPaired ==
    \A i \in 1..Len(snaps) : \A b \in DOMAIN snaps[i].backend_health :
        /\ snaps[i].backend_health[b].active_connections >= 0
        /\ (\A r \in Requests : req[r].pc \in {"new", "done"})
            => snaps[i].backend_health[b].active_connections = 0

\* the route a request in the routing stage is about to be matched to, in the
\* snapshot that is current
RouteAbout(r) ==
    FindMatchingRoute(snaps[gateway_service_holder].config.routes, req[r].path, None)

\* the request in the routing stage has no key for its route's limiter
KeyMissing(r) ==
    LET rl == RouteAbout(r)[1].rate_limit[1]
    IN  rl.by = "Ip" /\ IsNone(req[r].client)

\* the request in the routing stage is about to be denied: its route has a
\* limiter and either the key is missing under the Deny policy or the key's
\* quota is used up
DenialDue(r) ==
    /\ IsSome(RouteAbout(r))
    /\ IsSome(RouteAbout(r)[1].rate_limit)
    /\ RouteAbout(r)[1].prefix \in DOMAIN snaps[gateway_service_holder].rate_limiters
    /\ LET e == RouteAbout(r)[1]
           rl == e.rate_limit[1]
           lim == snaps[gateway_service_holder].rate_limiters[e.prefix]
           key == IF rl.by = "Route" THEN "route" ELSE req[r].client[1]
       IN  IF KeyMissing(r) THEN rl.on_missing_key = "Deny"
           ELSE CellsUsed(lim, key) >= rl.requests

\* the routing step of request r
RouteStep(r) == req[r].pc = "route" /\ req'[r].gwR # 0

\* the routing step ends the request at the limiter: matched, not rewritten by
\* a middleware, not dispatched, no backend chosen or counted
StopsAtLimiter(r) ==
    /\ req'[r].pc = "done" /\ req'[r].limited
    /\ req'[r].prefix = Some(RouteAbout(r)[1].prefix)
    /\ req'[r].path = req[r].path /\ ~req'[r].mw
    /\ req'[r].gwF = 0 /\ IsNone(req'[r].backend)
    /\ \A i \in 1..Len(snaps) : snaps'[i].backend_health = snaps[i].backend_health

\* C9 as stated: rate limiting comes after route matching and before any
\* middleware or dispatch, and every denied request is answered with the
\* limiter's configured status and configured message and goes no further.
C9_DeniedGetsConfiguredMessage ==
    [][\A r \in Requests :
          (RouteStep(r) /\ DenialDue(r)) =>
             /\ StopsAtLimiter(r)
             /\ req'[r].status = RouteAbout(r)[1].rate_limit[1].status_code
             /\ req'[r].body = RouteAbout(r)[1].rate_limit[1].message]_vars

\* C9 amended: rate limiting comes after route matching and before any
\* middleware or dispatch; a denied request goes no further and is answered
\* with the configured status, and with the configured message when its quota
\* is used up or with "No client IP available" when its key is missing; a
\* request that is not denied is not answered by the limiter.
C9_DeniedStopsAtLimiter ==
    [][\A r \in Requests :
          /\ (RouteStep(r) /\ DenialDue(r)) =>
                /\ StopsAtLimiter(r)
                /\ req'[r].status = RouteAbout(r)[1].rate_limit[1].status_code
                /\ req'[r].body = IF KeyMissing(r) THEN "No client IP available"
                                  ELSE RouteAbout(r)[1].rate_limit[1].message
          /\ (RouteStep(r) /\ ~DenialDue(r)) => ~req'[r].limited
          /\ req[r].limited => req[r].pc = "done" /\ IsNone(req[r].backend)]_vars

\* a request to /s, whose route has the strip_prefix middleware, was denied by
\* the route's limiter
C9_Witness ==
    \E r \in Requests :
        /\ req[r].limited /\ req[r].pc = "done"
        /\ req[r].prefix = Some(<<"/", "s">>)
        /\ req[r].status = 503 /\ req[r].body = "Slow down"
        /\ req[r].path = <<"/", "s", "/", "a">>

HealthyTargets ==
    {healthState.targets[i] : i \in {k \in 1..Len(healthState.targets) :
        healthState.backend_health[healthState.targets[k]].status = "Healthy"}}

\* C6: the backend select_backend returns is a target of the route whose status
\* is Healthy in the snapshot at the time of the selection (or health checks
\* are disabled); when no target is healthy none is chosen and no backend's
\* connection count moves.
C6_ChosenBackendIsHealthy ==
    [][(healthState.pc = "ready" /\ healthState'.pc = "selected") =>
          LET pick == healthState'.picked
          IN  /\ IsSome(pick) =>
                    /\ \E i \in 1..Len(healthState.targets) : healthState.targets[i] = pick[1]
                    /\ healthState.hc.enabled => pick[1] \in HealthyTargets
              /\ (healthState.hc.enabled /\ HealthyTargets = {}) =>
                    /\ IsNone(pick)
                    /\ healthState'.backend_health = healthState.backend_health]_vars

\* with X unhealthy, a selection among X and Y returned Y
C6_Witness ==
    /\ healthState.pc = "selected"
    /\ healthState.hc.enabled
    /\ healthState.targets = <<"X", "Y">>
    /\ healthState.backend_health["X"].status = "Unhealthy"
    /\ healthState.picked = Some("Y")

(***************************************************************************)
(* Properties of route matching (SpecMatch).                               *)
(***************************************************************************)
\* the entries of the table whose prefix is a prefix of the path
PrefixMatches ==
    {e \in {matchCall.routes[i] : i \in 1..Len(matchCall.routes)} :
        /\ Len(e.prefix) <= Len(matchCall.path)
        /\ \A i \in 1..Len(e.prefix) : e.prefix[i] = matchCall.path[i]}

\* those of them whose host equals the request host, case aside
HostMatched ==
    {e \in PrefixMatches :
        /\ IsSome(e.host) /\ IsSome(matchCall.host)
        /\ ToAsciiLowercase(e.host[1]) = ToAsciiLowercase(matchCall.host[1])}

\* those of them without a host
HostLess == {e \in PrefixMatches : IsNone(e.host)}

\* e is the one entry of S with the longest prefix
TheLongest(S, e) ==
    e \in S /\ \A o \in S \ {e} : Len(o.prefix) < Len(e.prefix)

IpFilterHit ==
    LET f == wafCall.waf.ip_filter
    IN  /\ f.enabled /\ IsSome(wafCall.client_ip)
        /\ \/ f.whitelist # {} /\ wafCall.client_ip[1] \notin f.whitelist
           \/ wafCall.client_ip[1] \in f.blacklist

\* the configuration of each pattern detector
RuleOf(d) ==
    CASE d = "BOT" -> wafCall.waf.bot_detection
      [] d = "SQL_INJECTION" -> wafCall.waf.sql_injection
      [] d = "XSS" -> wafCall.waf.xss
      [] d = "COMMAND_INJECTION" -> wafCall.waf.command_injection
      [] d = "PATH_TRAVERSAL" -> wafCall.waf.path_traversal

\* C10: each detector acts on its own block_mode: with the WAF enabled a
\* request is answered 403 exactly when it triggers an enabled detector whose
\* block_mode is block (the IP filter always blocks); a request whose
\* triggered detectors are all in log-and-pass mode goes on.
C10_AnyBlockModeDetectorBlocks ==
    (wafCall.pc = "done" /\ wafCall.waf.enabled) =>
        (wafCall.status = 403 <=>
            \/ IpFilterHit
            \/ \E d \in wafCall.trig : RuleOf(d).enabled /\ RuleOf(d).block_mode)

(***************************************************************************)
(* Properties of the configuration watcher (SpecWatcher).                  *)
(***************************************************************************)
\* the watcher is blocked in notify_rx.recv() with no signal pending and the
\* debounce window of its last attempt over: nothing happens until a write
WatcherQuiescent == wpc = "idle" /\ notify = 0 /\ ~cooldown

\* C11: change signals inside the debounce window are coalesced, not lost:
\* once the watcher has come to rest after a burst of writes, the
\* configuration last written by the source is the current one
C11_LastWriteBecomesCurrent ==
    (WatcherQuiescent /\ IsSome(source)) =>
        /\ arcs[config_holder] = source[1]
        /\ snaps[gateway_service_holder].config = source[1]

\* the probe loop the current configuration calls for
ExpectedProbeLoops ==
    IF snaps[gateway_service_holder].config.health_check.enabled
    THEN {gateway_service_holder} ELSE {}

\* C12: at most one probe loop runs at any time, and between reloads it is
\* the loop of the current snapshot, present exactly when the current
\* configuration enables health checks
C12_OneProbeLoopOnCurrentSnapshot ==
    /\ Cardinality(probe_loops) <= 1
    /\ wpc = "idle" => probe_loops = ExpectedProbeLoops

\* a second reload has replaced a probe loop by the loop of the new snapshot
C12_Witness ==
    /\ wpc = "idle"
    /\ Len(snaps) = 3
    /\ gateway_service_holder = 3
    /\ ~snaps[2].config.health_check.enabled
    /\ probe_loops = {3}

(***************************************************************************)
(* Properties of the probe loop (SpecProbes).                              *)
(***************************************************************************)
\* the status before the i-th probe: a backend starts Healthy
StatusBefore(i) == IF i = 1 THEN "Healthy" ELSE probeRun.statuses[i - 1]

\* the length of the run of equal results that ends with the i-th probe
RunEndingAt(i) ==
    CHOOSE n \in 1..i :
        /\ \A j \in (i - n + 1)..i : probeRun.results[j] = probeRun.results[i]
        /\ n = i \/ probeRun.results[i - n] # probeRun.results[i]

\* the i-th probe brings a run against the current status to its threshold
ReachesThreshold(i) ==
    \/ /\ probeRun.results[i] = "F"
       /\ StatusBefore(i) = "Healthy"
       /\ RunEndingAt(i) = probeRun.hc.unhealthy_threshold
    \/ /\ probeRun.results[i] = "S"
       /\ StatusBefore(i) = "Unhealthy"
       /\ RunEndingAt(i) = probeRun.hc.healthy_threshold

\* C13: a backend flips status on exactly the tick that brings its run of
\* same-direction results to the threshold, and with thresholds 3 and 2 the
\* probes F,F,F,S,S leave it Healthy, Healthy, Unhealthy, Unhealthy, Healthy
C13_FlipsExactlyAtThreshold ==
    probeRun.pc = "run" =>
        /\ Len(probeRun.statuses) = Len(probeRun.results)
        /\ \A i \in 1..Len(probeRun.results) :
              /\ (probeRun.statuses[i] # StatusBefore(i)) <=> ReachesThreshold(i)
              /\ ReachesThreshold(i) =>
                    probeRun.statuses[i] =
                        IF probeRun.results[i] = "F" THEN "Unhealthy" ELSE "Healthy"
        /\ ( /\ probeRun.hc.unhealthy_threshold = 3
             /\ probeRun.hc.healthy_threshold = 2
             /\ probeRun.results = <<"F", "F", "F", "S", "S">> )
           => probeRun.statuses =
                <<"Healthy", "Healthy", "Unhealthy", "Unhealthy", "Healthy">>

\* the five probes of the scenario have been made and the backend is back
C13_Witness ==
    /\ probeRun.pc = "run"
    /\ probeRun.hc.unhealthy_threshold = 3
    /\ probeRun.hc.healthy_threshold = 2
    /\ probeRun.results = <<"F", "F", "F", "S", "S">>
    /\ probeRun.health.status = "Healthy"

(***************************************************************************)
(* Properties of one rate limiter under a clock (SpecLimiter).             *)
(***************************************************************************)
LimCfg == limiterRun.lim.cfg
LimLog == limiterRun.log

\* the logged requests of key k
EntriesOf(k) == {i \in DOMAIN LimLog : LimLog[i].key = Some(k)}
LimKeys == {"ip1", "ip2"}

\* i and j are consecutive requests of one key
ConsecutiveOf(k, i, j) ==
    /\ i \in EntriesOf(k) /\ j \in EntriesOf(k) /\ i < j
    /\ \A m \in EntriesOf(k) : ~(i < m /\ m < j)

\* the last allowed request of key k before request j, if any
LastAllowedBefore(k, j) ==
    {i \in EntriesOf(k) : /\ i < j /\ LimLog[i].allowed
                          /\ \A m \in EntriesOf(k) : (i < m /\ m < j) => ~LimLog[m].allowed}

DeniedAsConfigured(j) ==
    /\ ~LimLog[j].allowed
    /\ LimLog[j].status = LimCfg.status_code
    /\ LimLog[j].body = LimCfg.message

OnePerPeriodTokenBucket ==
    limiterRun.pc = "run" /\ LimCfg.requests = 1 /\ LimCfg.algorithm = "TokenBucket"

\* a request at least one period after the last allowed one is allowed
AllowedAgainAfterPeriod ==
    \A k \in LimKeys : \A j \in EntriesOf(k) : \A i \in LastAllowedBefore(k, j) :
        LimLog[j].t >= LimLog[i].t + LimCfg.period => LimLog[j].allowed

FirstOf(k) == {i \in EntriesOf(k) : \A m \in EntriesOf(k) : i <= m}

AllowedIn(k, lo, hi) ==
    {i \in EntriesOf(k) : LimLog[i].allowed /\ lo < LimLog[i].t /\ LimLog[i].t <= hi}

\* C15: under SlidingWindow, for every key and every trailing window of
\* length `period`, at most `requests` requests are allowed
C15_SlidingWindowBound ==
    (limiterRun.pc = "run" /\ LimCfg.algorithm = "SlidingWindow") =>
        \A k \in LimKeys : \A end \in 0..MaxTime :
            Cardinality(AllowedIn(k, end - LimCfg.period, end)) <= LimCfg.requests

\* key k emptied a full bucket at time a: its first `requests` requests came
\* at time a and were allowed, and its next request came a full period later
EmptiedThenIdle(k, a) ==
    /\ \A i \in FirstOf(k) : LimLog[i].t = a
    /\ Cardinality(AllowedIn(k, a - 1, a)) = LimCfg.requests
    /\ \A i \in EntriesOf(k) : LimLog[i].t > a => LimLog[i].t >= a + LimCfg.period

\* the requests of key k made at time a + period or later
AfterIdle(k, a) == {i \in EntriesOf(k) : LimLog[i].t >= a + LimCfg.period}

\* C16: under TokenBucket, after the bucket has been emptied and one full
\* period has passed without requests, `requests` further requests are allowed
C16_FullRefillAfterPeriod ==
    (limiterRun.pc = "run" /\ LimCfg.algorithm = "TokenBucket") =>
        \A k \in LimKeys : \A a \in 0..MaxTime :
            EmptiedThenIdle(k, a) =>
                \A i \in AfterIdle(k, a) :
                    Cardinality({m \in AfterIdle(k, a) : m < i}) < LimCfg.requests
                    => LimLog[i].allowed

\* the period-aligned window a clock reading falls in
WindowOf(t) == t \div LimCfg.period

\* the requests of key k allowed before request i in the window of request i
AllowedEarlierInWindow(k, i) ==
    {m \in EntriesOf(k) : /\ m < i /\ LimLog[m].allowed
                          /\ WindowOf(LimLog[m].t) = WindowOf(LimLog[i].t)}

\* C17: under FixedWindow every period-aligned window has the full allowance:
\* a request is allowed whenever fewer than `requests` requests of its key
\* were allowed earlier in its own window
C17_FullAllowancePerWindow ==
    (limiterRun.pc = "run" /\ LimCfg.algorithm = "FixedWindow") =>
        \A k \in LimKeys : \A i \in EntriesOf(k) :
            Cardinality(AllowedEarlierInWindow(k, i)) < LimCfg.requests
            => LimLog[i].allowed

\* C18: with by = ip a request without a client address follows
\* on_missing_key: deny rejects it with the configured status and the body
\* "No client IP available", allow lets it pass; no quota is charged
C18_MissingKeyFollowsPolicy ==
    (limiterRun.pc = "run" /\ LimCfg.by = "Ip") =>
        /\ \A i \in DOMAIN LimLog :
              LimLog[i].key = None =>
                IF LimCfg.on_missing_key = "Deny"
                THEN /\ ~LimLog[i].allowed
                     /\ LimLog[i].status = LimCfg.status_code
                     /\ LimLog[i].body = "No client IP available"
                ELSE LimLog[i].allowed
        /\ DOMAIN limiterRun.lim.tat \subseteq LimKeys

\* a request without a client address has been rejected under deny after a
\* request with an address was let through
C18_Witness ==
    /\ limiterRun.pc = "run"
    /\ LimCfg.on_missing_key = "Deny"
    /\ Len(LimLog) = 2
    /\ LimLog[1].key = Some("ip1") /\ LimLog[1].allowed
    /\ LimLog[2].key = None /\ ~LimLog[2].allowed
    /\ LimLog[2].body = "No client IP available"

(***************************************************************************)
(* Properties of the limiters across reloads (Spec).                       *)
(***************************************************************************)
\* the limiters of snapshot i hold no state
LimitersFresh(gw) ==
    \A p \in DOMAIN gw.rate_limiters : DOMAIN gw.rate_limiters[p].tat = {}

\* C19: every reload builds fresh limiters, and the limiter state of a
\* snapshot is changed only by the routing stage of a request that runs on
\* that snapshot: quota used under one snapshot never counts under another
C19_FreshLimitersPerSnapshot ==
    [][/\ Len(snaps') >= Len(snaps)
       /\ \A i \in 1..Len(snaps') :
             IF i > Len(snaps)
             THEN LimitersFresh(snaps'[i])
             ELSE snaps'[i].rate_limiters # snaps[i].rate_limiters =>
                     \E r \in Requests :
                        /\ RouteStep(r)
                        /\ req'[r].gwR = i
                        /\ \A j \in 1..Len(snaps) :
                              j # i => snaps'[j].rate_limiters = snaps[j].rate_limiters]_vars

\* the quota of /s is used up in the first snapshot, and a request to /s has
\* been let through by the limiter of the second
C19_Witness ==
    /\ Len(snaps) = 2
    /\ gateway_service_holder = 2
    /\ CellsUsed(snaps[1].rate_limiters[RouteS.prefix], "route") = RateLimitPerRoute.requests
    /\ \E r \in Requests :
          /\ req[r].gwR = 2
          /\ req[r].prefix = Some(RouteS.prefix)
          /\ ~req[r].limited
          /\ req[r].pc # "done"
    /\ CellsUsed(snaps[2].rate_limiters[RouteS.prefix], "route") = 1

\* the routes of a configuration that declare a rate limit
LimitedPrefixes(config) ==
    {config.routes[k].prefix :
        k \in {n \in 1..Len(config.routes) : IsSome(config.routes[n].rate_limit)}}

\* C20: every route that declares a rate limit is limited: each snapshot has
\* a limiter for each such prefix, and a request routed to such a prefix found
\* a limiter to consult in its snapshot
C20_EveryDeclaredLimitIsBuilt ==
    /\ \A i \in 1..Len(snaps) :
          LimitedPrefixes(snaps[i].config) \subseteq DOMAIN snaps[i].rate_limiters
    /\ \A r \in Requests :
          (req[r].gwR # 0 /\ IsSome(req[r].prefix)
              /\ req[r].prefix[1] \in LimitedPrefixes(snaps[req[r].gwR].config))
          => req[r].prefix[1] \in DOMAIN snaps[req[r].gwR].rate_limiters

(***************************************************************************)
(* Properties of the built-in endpoints (Spec).                            *)
(***************************************************************************)
\* C21: a request to a built-in endpoint bypasses the WAF: it is never
\* answered 403 and, once answered, carries the built-in handler's response
C21_BuiltinsBypassWaf ==
    \A r \in Requests :
        req[r].opath = StatusPath =>
            /\ req[r].status # 403
            /\ req[r].pc = "done" => (req[r].status = 200 /\ req[r].body = "status")

(***************************************************************************)
(* Properties of the WAF's IP filter (SpecWaf).                            *)
(***************************************************************************)
\* the client IP of the checked request is known and whitelisted
ClientWhitelisted ==
    /\ IsSome(wafCall.client_ip)
    /\ wafCall.client_ip[1] \in wafCall.waf.ip_filter.whitelist

\* C22: with a non-empty whitelist a request passes the IP filter only if its
\* client IP is in the whitelist; every other request that reaches the WAF
\* produces the violation IP_NOT_WHITELISTED
C22_OnlyWhitelistedPass ==
    ( /\ wafCall.pc = "done"
      /\ wafCall.waf.enabled
      /\ wafCall.waf.ip_filter.enabled
      /\ wafCall.waf.ip_filter.whitelist # {}
      /\ ~ClientWhitelisted )
    => wafCall.violation = Some(Violation("IP_NOT_WHITELISTED", TRUE))

(***************************************************************************)
(* Properties of backend selection (SpecHealth).                           *)
(***************************************************************************)
\* the step is a call of select_backend
Selects == healthState.pc = "ready" /\ healthState'.pc = "selected"

\* the healthy targets of the route, in declared order, before the step
HealthyList ==
    LET ok(t) == ~healthState.hc.enabled \/
                 healthState.backend_health[t].status = "Healthy"
    IN  SelectSeq(healthState.targets, ok)

IsRoundRobin == healthState.strategy \in {None, Some("RoundRobin")}

\* C23: RoundRobin advances its counter on every selection: the selection
\* that reads counter value c returns the healthy target number c mod N in
\* declared order and leaves c + 1, and nothing else moves the counter, so
\* successive selections over an unchanged healthy set cycle through it and
\* no two observe the same value
C23_RoundRobinCycles ==
    [][/\ (Selects /\ IsRoundRobin /\ HealthyList # <<>>) =>
             /\ healthState'.picked =
                   Some(HealthyList[(COUNTER % Len(HealthyList)) + 1])
             /\ COUNTER' = COUNTER + 1
       /\ COUNTER' # COUNTER => (Selects /\ IsRoundRobin /\ HealthyList # <<>>)]_vars

\* the third selection over the two targets X, Y has come back to X
C23_Witness ==
    /\ healthState.pc = "selected"
    /\ ~healthState.hc.enabled
    /\ healthState.strategy = Some("RoundRobin")
    /\ healthState.targets = <<"X", "Y">>
    /\ COUNTER = 3
    /\ healthState.picked = Some("X")

\* the positions of the healthy list with the lowest connection count
LowestPositions ==
    {i \in 1..Len(HealthyList) :
        \A j \in 1..Len(HealthyList) :
            healthState.backend_health[HealthyList[i]].active_connections
              <= healthState.backend_health[HealthyList[j]].active_connections}

SamePassTie(routes, path, host) ==
    \E i, j \in 1..Len(routes) :
        /\ i # j
        /\ Len(routes[i].prefix) = Len(routes[j].prefix)
        /\ \/ WithHostFilter(routes[i], path, host) /\ WithHostFilter(routes[j], path, host)
           \/ NoHostFilter(routes[i], path) /\ NoHostFilter(routes[j], path)

\* C25: in a route table that check_route_conflicts accepts, no request path
\* and host has two candidates of the same prefix length in the same pass of
\* find_matching_route
C25_AcceptedTableHasNoTie ==
    (validateCall.pc \in {"validated", "done"} /\ validateCall.accepted) =>
        \A p \in ValidatePaths, h \in ValidateHosts :
            ~SamePassTie(validateCall.routes, p, h)

\* an accepted table holds the same prefix twice, under a host and without
\* one, and the request was matched through the host pass
C25_Witness ==
    /\ validateCall.pc = "done"
    /\ validateCall.accepted
    /\ Len(validateCall.routes) = 2
    /\ validateCall.routes[1].prefix = validateCall.routes[2].prefix
    /\ StartsWith(validateCall.path, validateCall.routes[1].prefix)
    /\ IsSome(validateCall.result)
    /\ IsSome(validateCall.result[1].host)

\* the table of two hostless routes, one under /a and one under /a/b
NestedTable(routes) ==
    /\ Len(routes) = 2
    /\ {routes[1], routes[2]} = {[prefix |-> <<"/", "a">>, host |-> None],
                                 [prefix |-> <<"/", "a", "/", "b">>, host |-> None]}

\* C26: a route under /a and a route under /a/b, both without host, pass the
\* route-conflict check together; a request for /a/b/x is matched to the /a/b
\* route and a request for /a/x to the /a route
C26_NestedPrefixesConfigurable ==
    (validateCall.pc \in {"validated", "done"} /\ NestedTable(validateCall.routes)) =>
        /\ validateCall.accepted
        /\ (validateCall.pc = "done"
              /\ validateCall.path = <<"/", "a", "/", "b", "/", "x">>) =>
                validateCall.result = Some([prefix |-> <<"/", "a", "/", "b">>,
                                            host |-> None])
        /\ (validateCall.pc = "done" /\ validateCall.path = <<"/", "a", "/", "x">>) =>
                validateCall.result = Some([prefix |-> <<"/", "a">>, host |-> None])

(***************************************************************************)
(* C27, C28: path rewriting and the strip_prefix middleware.               *)
(***************************************************************************)
HasDoubleSlash(s) == \E i \in 1..(Len(s) - 1) : s[i] = "/" /\ s[i + 1] = "/"

\* the proxied request was handed to send_request
ForwardSent == forwardCall.pc \in {"sending", "done"} /\ forwardCall.out.status = 0

\* the WebSocket handshake was answered 101; its backend URL is built
WsSwitched == wsCall.pc = "done" /\ wsCall.out.status = 101

PlainRoute(call) == \A i \in 1..Len(call.route.middlewares) :
                        call.route.middlewares[i] # "strip_prefix"

\* the examples of the rewriting rules, for the proxy forwarder (with its
\* backend URI) and for the WebSocket handler
RewriteExamplesHold ==
    /\ (ForwardSent /\ PlainRoute(forwardCall)
          /\ forwardCall.route.path_rewrite = Some(<<"/">>)
          /\ forwardCall.path = forwardCall.route.prefix) =>
            forwardCall.out.path = <<"/">>
    /\ (ForwardSent /\ PlainRoute(forwardCall)
          /\ forwardCall.route.path_rewrite = Some(<<"/", "x">>)
          /\ forwardCall.route.prefix = <<"/", "r", "/">>
          /\ forwardCall.path = <<"/", "r", "/", "f", "/", "g">>) =>
            forwardCall.out.path = <<"/", "x", "/", "f", "/", "g">>
    /\ (ForwardSent /\ PlainRoute(forwardCall)
          /\ forwardCall.route.path_rewrite = Some(<<"/", "x">>)
          /\ forwardCall.route.prefix = <<"/", "r">>
          /\ forwardCall.route.target = <<"b">>
          /\ forwardCall.path = <<"/", "r", "/", "f">>
          /\ forwardCall.query = Some(<<"q">>)) =>
            forwardCall.out.uri = <<"b", "/", "x", "/", "f", "?", "q">>
    /\ (ForwardSent /\ PlainRoute(forwardCall)
          /\ forwardCall.route.path_rewrite = Some(<<"/", "x">>)
          /\ forwardCall.route.prefix = <<"/", "r">>
          /\ forwardCall.route.target = <<"b">>
          /\ forwardCall.path = <<"/", "r">>
          /\ forwardCall.query = None) =>
            forwardCall.out.uri = <<"b", "/", "x">>
    /\ (WsSwitched /\ PlainRoute(wsCall)
          /\ wsCall.route.path_rewrite = Some(<<"/">>)
          /\ wsCall.path = wsCall.route.prefix) =>
            wsCall.out.path = <<"/">>
    /\ (WsSwitched /\ PlainRoute(wsCall)
          /\ wsCall.route.path_rewrite = Some(<<"/", "x">>)
          /\ wsCall.route.prefix = <<"/", "r", "/">>
          /\ wsCall.path = <<"/", "r", "/", "f", "/", "g">>) =>
            wsCall.out.path = <<"/", "x", "/", "f", "/", "g">>

RewriteRootTwin(route) ==
    [route EXCEPT !.middlewares = <<>>, !.path_rewrite = Some(<<"/">>)]

\* C28: a request on a route with the strip_prefix middleware and no
\* path_rewrite ends as the same request does on the same route declared
\* with path_rewrite = "/" and no strip_prefix: same backend, same outbound
\* path, query string and URI
C28_StripPrefixEqualsRewriteRoot ==
    (forwardCall.pc \in {"sending", "done"}
        /\ forwardCall.route.middlewares = <<"strip_prefix">>
        /\ IsNone(forwardCall.route.path_rewrite)) =>
            forwardCall.out = ForwardOutcome(RewriteRootTwin(forwardCall.route),
                                             forwardCall.path, forwardCall.query)

(***************************************************************************)
(* C29, C30: the statuses of forwarder failures and of refused WebSocket   *)
(* handshakes.                                                             *)
(***************************************************************************)
\* C29: a request whose backend URI cannot be built ends with 500, a request
\* whose backend refuses the connection ends with 502, and a request whose
\* backend stays silent is answered 504 once the client's time limit has
\* passed (at the latest after MaxWait ticks)
C29_ForwarderFailureStatuses ==
    /\ (forwardCall.pc = "done" /\ forwardCall.out.status = 0
          /\ forwardCall.behaviour = "refuses") => forwardCall.status = 502
    /\ (forwardCall.pc = "done" /\ forwardCall.out.status = 500) =>
          forwardCall.status = 500
    /\ (forwardCall.pc = "done" /\ forwardCall.out.status = 0
          /\ forwardCall.behaviour = "silent") => forwardCall.status = 504
    /\ (forwardCall.pc = "sending" /\ forwardCall.behaviour = "silent") =>
          forwardCall.waited < MaxWait

\* C30: a request for a WebSocket route without an Upgrade header equal to
\* "websocket" (compared without regard to case), or without a
\* Sec-WebSocket-Key header, is answered 400, and never 101
C30_BadHandshakeIs400 ==
    (wsCall.pc = "done" /\ wsCall.out.status # 404
        /\ (\/ IsNone(wsCall.upgrade)
            \/ (IsSome(wsCall.upgrade)
                  /\ ToAsciiLowercase(wsCall.upgrade[1]) # Websocket)
            \/ ~wsCall.has_key)) =>
        wsCall.out.status = 400

(***************************************************************************)
(* C36: the consecutive counters of a backend under the probe loop.        *)
(***************************************************************************)
\* C36: after any sequence of probe results consecutive_successes is the
\* length of the current unbroken run of successes and consecutive_failures
\* that of the current unbroken run of failures, also on the tick that
\* changes the status
C36_CountersAreRunLengths ==
    (probeRun.pc = "run" /\ probeRun.results # <<>>) =>
        LET n == Len(probeRun.results)
        IN  IF probeRun.results[n] = "S"
            THEN /\ probeRun.health.consecutive_successes = RunEndingAt(n)
                 /\ probeRun.health.consecutive_failures = 0
            ELSE /\ probeRun.health.consecutive_failures = RunEndingAt(n)
                 /\ probeRun.health.consecutive_successes = 0

(***************************************************************************)
(* C37: the route acted on at dispatch.                                    *)
(***************************************************************************)
\* the targets of the route with this prefix in a snapshot
TargetsOfPrefix(gw, prefix) ==
    UNION {{gw.config.routes[i].targets[k] : k \in 1..Len(gw.config.routes[i].targets)} :
             i \in {j \in 1..Len(gw.config.routes) : gw.config.routes[j].prefix = prefix}}

\* C37: a request that route_request matched to a route, and whose forwarder
\* read the same snapshot, is never refused by the forwarder for want of a
\* route and is never sent to a backend that is not a target of that route
C37_DispatchUsesMatchedRoute ==
    \A r \in Requests :
        (IsSome(req[r].prefix) /\ req[r].gwF # 0 /\ req[r].gwF = req[r].gwR) =>
            /\ req[r].body # "No matching route found"
            /\ IsSome(req[r].backend) =>
                  req[r].backend[1] \in TargetsOfPrefix(snaps[req[r].gwR], req[r].prefix[1])

(***************************************************************************)
(* C38: unhealthy backends across reloads.                                 *)
(***************************************************************************)
\* C38: with health checks enabled, a backend that is Unhealthy is not given
\* to a request, and it becomes Healthy again only in a step that leaves it
\* with at least healthy_threshold consecutive successes, reloads included
C38_UnhealthyUntilThreshold ==
    [][\A b \in Backends :
          (healthState.hc.enabled /\ healthState.backend_health[b].status = "Unhealthy") =>
              /\ (healthState.pc = "ready" /\ healthState'.pc = "selected") =>
                    healthState'.picked # Some(b)
              /\ healthState'.backend_health[b].status = "Healthy" =>
                    healthState'.backend_health[b].consecutive_successes
                        >= healthState.hc.healthy_threshold]_vars

(***************************************************************************)
(* C34: the validator and the construction of rate limiters.               *)
(***************************************************************************)
\* C34: in every loaded configuration that the validator accepts, the limiter
\* of every declared rate limit can be built
C34_AcceptedLimitsCanBeBuilt ==
    \A i \in 1..Len(arcs) :
        Validate(arcs[i]) =>
            \A k \in 1..Len(arcs[i].routes) :
                IsSome(arcs[i].routes[k].rate_limit) =>
                    LimiterBuilds(arcs[i].routes[k].rate_limit[1])

(***************************************************************************)
(* C35: the validation of a TLS block.                                     *)
(***************************************************************************)
\* C35: a TLS block is accepted only if it selects exactly one of the two
\* modes: manual, with cert_path and key_path both naming existing files and
\* no ACME block, or ACME, with non-empty domains and e-mail and neither
\* cert_path nor key_path
C35_ExactlyOneTlsMode ==
    (tlsCall.pc = "done" /\ tlsCall.accepted) =>
        LET c == tlsCall.config
        IN  \/ /\ c.cert_path = Some("file")
               /\ c.key_path = Some("file")
               /\ IsNone(c.acme)
            \/ /\ IsNone(c.cert_path)
               /\ IsNone(c.key_path)
               /\ IsSome(c.acme)
               /\ c.acme[1].domains # <<>>
               /\ TrimSpaces(c.acme[1].email) # <<>>

\* the trigger that won the compare_exchange, if any
ShutdownWinners == {t \in Triggers : shutdownState.trig[t].pc \in {"won", "sent"}}

\* the awaiting tasks whose receiver existed before shutdown was triggered
\* and has not been given up by a timeout
EarlySubscribers ==
    {w \in Waiters : /\ shutdownState.wait[w].pc # "idle"
                     /\ ~shutdownState.wait[w].after
                     /\ shutdownState.wait[w].got # <<"Force">>}

\* what a receiver got from the channel (Force is what a wait makes up itself)
ReceivedReasons(w) ==
    SelectSeq(shutdownState.wait[w].got, LAMBDA r : r # "Force")

C39_AtMostOneBroadcast ==
    /\ Cardinality(ShutdownWinners) <= 1
    /\ Len(shutdownState.log) <= 1
    /\ (shutdownState.initiated <=> ShutdownWinners # {})
    /\ \A t \in ShutdownWinners :
          /\ shutdownState.trig[t].pc = "sent" /\ EarlySubscribers # {}
                => shutdownState.log = <<shutdownState.trig[t].reason>>
          /\ \A w \in EarlySubscribers :
                shutdownState.trig[t].pc = "sent" /\ shutdownState.wait[w].pc = "returned"
                    => shutdownState.wait[w].got = <<shutdownState.trig[t].reason>>
          /\ \A w \in Waiters :
                /\ Len(shutdownState.wait[w].got) <= 1
                /\ ReceivedReasons(w) \in {<<>>, <<shutdownState.trig[t].reason>>}
    /\ ShutdownWinners = {} => \A w \in Waiters : ReceivedReasons(w) = <<>>

\* C39: triggering shutdown is idempotent: of any number of concurrent or
\* repeated trigger calls exactly one wins the compare_exchange and
\* broadcasts, every receiver subscribed before it is handed exactly one
\* reason, that of the first trigger, and is_shutdown_initiated never goes
\* back to false
C39_TriggerIsIdempotent ==
    /\ []C39_AtMostOneBroadcast
    /\ [][shutdownState.initiated => shutdownState.initiated']_vars

\* both triggers ran with different reasons, one lost the compare_exchange,
\* and a task subscribed before them holds the winner's reason
C39_Witness ==
    /\ \E t \in Triggers, u \in Triggers :
          /\ shutdownState.trig[t].pc = "sent"
          /\ shutdownState.trig[u].pc = "done"
          /\ shutdownState.trig[t].reason # shutdownState.trig[u].reason
          /\ \E w \in EarlySubscribers :
                shutdownState.wait[w].got = <<shutdownState.trig[t].reason>>
    /\ shutdownState.initiated

\* C40: every wait that begins after shutdown was triggered still returns a
\* reason
C40_LateWaitReturns ==
    \A w \in Waiters :
        (shutdownState.wait[w].pc = "waiting" /\ shutdownState.wait[w].after)
            ~> (shutdownState.wait[w].pc = "returned")

\* C33: a request in flight at shutdown is cut off only after the drain
\* timeout has been waited for
C33_CutOnlyAfterDrainTimeout ==
    \A q \in ShutdownRequests :
        shutdownState.reqs[q] = "cut" => shutdownState.main.drained >= ShutdownTimeoutSecs

\* the session is over and the copier of direction d had left its loop on a
\* clean end of its stream
EndedCleanly(d) ==
    wsBridge.pc = "closed" /\ wsBridge.ended[d] \in {"clean", "clean_blocked"}

\* C31 as stated: whenever either direction ends cleanly, a Close frame has
\* been sent to the peer on the other side by the time the session is torn
\* down
C31_CloseBeforeTeardown ==
    \A d \in Directions : EndedCleanly(d) => wsBridge.close_sent[PeerOf(d)]

\* C31: whenever a direction ends cleanly while the peer on the other side
\* takes the frame, a Close frame has been sent to that peer by the time the
\* session is torn down
C31_CloseWhenPeerTakesIt ==
    \A d \in Directions :
        wsBridge.ended[d] = "clean"
            => /\ wsBridge.close_sent[PeerOf(d)]
               /\ wsBridge.pc = "closed"
               /\ wsBridge.closed_by = d

\* a stream ended cleanly with no frame ever copied, and the Close of the
\* copier is what the other peer got
C31_Witness ==
    \E d \in Directions :
        /\ wsBridge.ended[d] = "clean"
        /\ wsBridge.closed_by = d
        /\ wsBridge.close_sent[PeerOf(d)]
        /\ wsBridge.elapsed > 0

\* C32: a bridge is closed by the timeout only after a direction has been
\* idle for idle_timeout_secs; a session that keeps exchanging frames more
\* often than that is never closed by the timeout
C32_TimeoutOnlyWhenIdle ==
    wsBridge.closed_by = "timeout"
        => \E d \in Directions : wsBridge.idle[d] >= wsBridge.idle_timeout[1]

====
